---- MODULE Spec2Model ----
(***************************************************************************)
(* Availability-slot generation and proposed-time matching of the Google   *)
(* Calendar MCP server (servers/google-calendar/src/main.py).              *)
(*                                                                         *)
(* Time is counted in minutes.  Minute 0 is Sunday 2024-03-31 00:00 UTC,   *)
(* the day on which Antarctica/Troll puts its clocks forward, so that the  *)
(* window of the model contains a Sunday, a Monday, a Tuesday and one      *)
(* daylight-saving transition.                                             *)
(*                                                                         *)
(* An aware datetime is a record [wall, off]: the wall-clock reading in    *)
(* minutes and the UTC offset of its tzinfo, also in minutes.  The instant *)
(* it denotes is wall - off.  An ISO-8601 string is a record               *)
(* [fmt, wall, us, off]: fmt "Z" (suffix Z), "offset" (suffix +hh:mm) or   *)
(* "garbage" (not ISO-8601), us the seconds and microseconds past the      *)
(* minute, in microseconds.                                                *)
(***************************************************************************)
EXTENDS Integers, Sequences, FiniteSets, TLC

\* ------------------------------------------------------------------ bounds

\* Last day (counted from Sunday 2024-03-31) a requested window may touch.
LastDay == 2
\* Longest list of busy periods the FreeBusy answer carries.
MaxBusy == 1

\* ------------------------------------------------------- program constants

DefaultSlotLength == 60
DefaultStartHour == 9
DefaultEndHour == 17
DefaultBufferMinutes == 0
DefaultMinAdvance == 120

MinutesPerDay == 24 * 60

Procs == {1, 2}

\* Python's None, and the empty dict.
None == [none |-> TRUE]
EmptyDict == [k \in {} |-> 0]

\* dict.get(k, default)
Get(d, k, default) == IF k \in DOMAIN d THEN d[k] ELSE default

\* dict with d[k] = v, and dict with k removed
With(d, k, v) == (k :> v) @@ d
Without(d, k) == [x \in DOMAIN d \ {k} |-> d[x]]

\* ---------------------------------------------------------------- datetime

Instant(dt) == dt.wall - dt.off

\* Aware datetimes compare by the instant they denote.
DtLt(a, b) == Instant(a) < Instant(b)
DtLe(a, b) == Instant(a) <= Instant(b)

\* dt + timedelta(minutes=m): wall-clock arithmetic, the tzinfo is kept.
PlusMinutes(dt, m) == [wall |-> dt.wall + m, off |-> dt.off]

\* dt.date(), as a day number.
DateOf(dt) == dt.wall \div MinutesPerDay

\* current_date.strftime('%A').lower(); day 0 is a Sunday.
DayName(date) ==
    LET names == <<"sunday", "monday", "tuesday", "wednesday",
                   "thursday", "friday", "saturday">>
    IN  names[(date % 7) + 1]

\* Mutant: the key is formatted after the date was advanced.
MutDateKeyAfterAdvance(date) ==
    CASE date = -2 -> "2024-03-30"
      [] date = -1 -> "2024-03-31"
      [] date = 0  -> "2024-04-01"
      [] date = 1  -> "2024-04-02"
      [] date = 2  -> "2024-04-03"
      [] date = 3  -> "2024-04-04"
      [] OTHER     -> "2024-04-05"

\* current_date.strftime('%Y-%m-%d') for the dates of the model.
DateKey(date) ==
    CASE date = -1 -> "2024-03-30"
      [] date = 0  -> "2024-03-31"
      [] date = 1  -> "2024-04-01"
      [] date = 2  -> "2024-04-02"
      [] date = 3  -> "2024-04-03"
      [] date = 4  -> "2024-04-04"
      [] OTHER     -> "2024-04-05"

\* ---------------------------------------------------------------- timezones

KnownZones == {"UTC", "Asia/Kolkata", "America/New_York", "Antarctica/Troll"}
InvalidZones == {"Mars/Phobos"}
TimezoneNames == KnownZones \cup InvalidZones

\* 2024-03-31 01:00 UTC: Antarctica/Troll goes from +00:00 to +02:00, its
\* clocks jump from 01:00 to 03:00.
TrollTransition == 1 * 60

\* The UTC offset a zone has at an instant of the model's week; New York
\* is on EDT throughout.
UtcOffsetAt(zone, instant) ==
    CASE zone = "UTC" -> 0
      [] zone = "Asia/Kolkata" -> 330
      [] zone = "America/New_York" -> -240
      [] zone = "Antarctica/Troll" ->
            IF instant < TrollTransition THEN 0 ELSE 120

\* Mutant: an unknown name falls back to the zone of the host.
MutResolveLocal(name) == IF name \in KnownZones THEN name ELSE "America/New_York"

\* pytz.timezone(timezone), with the bare except falling back to UTC.
ResolveTimezone(name) == IF name \in KnownZones THEN name ELSE "UTC"

\* dt.astimezone(tz)
AsTimezone(dt, zone) ==
    LET o == UtcOffsetAt(zone, Instant(dt))
    IN  [wall |-> Instant(dt) + o, off |-> o]

\* tz.localize(naive) with pytz's default is_dst=False: the offsets in force
\* a day before and a day after are tried; one fits for an ordinary wall
\* time; for a wall time skipped by the transition none fits and the offset
\* of six hours earlier is used.
Localize(zone, wall) ==
    LET before == UtcOffsetAt(zone, wall - MinutesPerDay)
        after  == UtcOffsetAt(zone, wall + MinutesPerDay)
        fits(o) == UtcOffsetAt(zone, wall - o) = o
    IN  IF fits(before) /\ fits(after)
        THEN [wall |-> wall, off |-> IF before < after THEN before ELSE after]
        ELSE IF fits(before) THEN [wall |-> wall, off |-> before]
        ELSE IF fits(after) THEN [wall |-> wall, off |-> after]
        ELSE [wall |-> wall, off |-> UtcOffsetAt(zone, wall - 6 * 60 - before)]

\* ------------------------------------------------------------- ISO strings

Z(wall) == [fmt |-> "Z", wall |-> wall, us |-> 0, off |-> 0]
Garbage == [fmt |-> "garbage", wall |-> 0, us |-> 0, off |-> 0]

Parses(s) == s.fmt # "garbage"

\* datetime.fromisoformat(s.replace('Z', '+00:00')) of a string on a whole
\* minute.
FromIso(s) == [wall |-> s.wall, off |-> IF s.fmt = "Z" THEN 0 ELSE s.off]

\* slot_start.isoformat()
IsoFormat(dt) == [fmt |-> "offset", wall |-> dt.wall, us |-> 0, off |-> dt.off]

\* int(datetime.fromisoformat(...).timestamp() * 1000)
TimestampMs(s) ==
    (s.wall - (IF s.fmt = "Z" THEN 0 ELSE s.off)) * 60000 + (s.us \div 1000)

\* ------------------------------------------------------------------ inputs

\* Window bounds a caller passes: every midnight UTC from Sunday to LastDay,
\* and 10:30 UTC on the days in between.
WindowTimes ==
    {d * MinutesPerDay : d \in 0..LastDay}
      \cup {d * MinutesPerDay + 10 * 60 + 30 : d \in 1..(LastDay - 1)}

Mon(h, m) == MinutesPerDay + h * 60 + m

\* Busy periods a FreeBusy answer may carry.
BusyMon11 == [start |-> Z(Mon(11, 0)), end |-> Z(Mon(12, 0))]
BusyMonPartial == [start |-> Z(Mon(9, 30)), end |-> Z(Mon(10, 15))]
\* 14:00-15:00 UTC on Monday, written with the offset +05:30
BusyMonOffset ==
    [start |-> [fmt |-> "offset", wall |-> Mon(19, 30), us |-> 0, off |-> 330],
     end   |-> [fmt |-> "offset", wall |-> Mon(20, 30), us |-> 0, off |-> 330]]
\* 01:30-04:30 UTC on Sunday, after the Troll transition
BusySunday == [start |-> Z(1 * 60 + 30), end |-> Z(4 * 60 + 30)]
BusyGarbage == [start |-> Garbage, end |-> Z(Mon(12, 0))]

BusyChoices == {BusyMon11, BusyMonPartial, BusyMonOffset, BusySunday, BusyGarbage}

RECURSIVE SeqsUpTo(_, _)
SeqsUpTo(S, n) ==
    IF n = 0 THEN {<<>>}
    ELSE LET shorter == SeqsUpTo(S, n - 1)
         IN  shorter \cup {Append(q, x) : q \in shorter, x \in S}

\* A period whose end does not parse, and lists in which an unparsable
\* period follows a well-formed one.
BusyEndGarbage == [start |-> Z(Mon(11, 0)), end |-> Garbage]
MixedBusyLists == {<<BusyMon11, BusyGarbage>>, <<BusyMonPartial, BusyEndGarbage>>}

BusyLists == SeqsUpTo(BusyChoices, MaxBusy) \cup MixedBusyLists

\* The business hours the code uses when the settings carry none.
DefaultBusinessHours ==
    LET open == [enabled |-> TRUE, startHour |-> 9, endHour |-> 17]
        shut == [enabled |-> FALSE, startHour |-> 9, endHour |-> 17]
    IN  [monday |-> open, tuesday |-> open, wednesday |-> open,
         thursday |-> open, friday |-> open, saturday |-> shut, sunday |-> shut]

\* Sunday open across the transition, Monday 9-17, Tuesday switched off,
\* the other days missing.
HoursA ==
    [sunday  |-> [enabled |-> TRUE, startHour |-> 0, endHour |-> 5],
     monday  |-> [enabled |-> TRUE, startHour |-> 9, endHour |-> 17],
     tuesday |-> [enabled |-> FALSE, startHour |-> 9, endHour |-> 17]]

\* Sunday without an 'enabled' field, Monday without hours, Tuesday
\* closing before it opens, the other days missing.
HoursB ==
    [sunday  |-> [startHour |-> 9, endHour |-> 17],
     monday  |-> [enabled |-> TRUE],
     tuesday |-> [enabled |-> TRUE, startHour |-> 11, endHour |-> 9]]

\* Sunday closing before it opens, the other days missing.
HoursC == [sunday |-> [enabled |-> TRUE, startHour |-> 3, endHour |-> 2]]

HoursChoices == {HoursA, HoursB, HoursC}
SlotLengthChoices == {45}

\* booking_settings records; every field is optional.
BookingSettings ==
    LET base == {EmptyDict}
        withHours == base \cup {b @@ [businessBookingHours |-> h] :
                                    b \in base, h \in HoursChoices}
    IN  withHours \cup {b @@ [slotLengthMinutes |-> l] :
                            b \in withHours, l \in SlotLengthChoices}

\* ------------------------------------------------------------------- state

VARIABLES
    pc,                \* where each invocation stands
    start_date,        \* argument: window start, an ISO string
    end_date,          \* argument: window end, an ISO string
    proposed_time,     \* argument of _check_availability_logic, or None
    context,           \* the booking context fetched for the call, or None
    busy_periods,      \* generator argument: the FreeBusy 'busy' list
    timezone,          \* generator argument: the profile's timezone string
    booking_settings,  \* generator argument
    tz,                \* the zone generation runs in
    start_local,
    end_local,
    busy_times,        \* parsed busy periods, pairs of datetimes
    slots,             \* the result dict, in insertion order: [key, val] pairs
    current_date,
    day_slots,
    slot_start,
    day_end,
    slot_end,
    earliest_slot,     \* now + minimumAdvanceMinutes, computed and not read
    result,            \* what the call returned, or None
    calls,             \* the helpers and requests each invocation has reached, in order
    call_sid,          \* argument of _book_appointment_logic
    time_utc,          \* argument of _book_appointment_logic
    token_data,        \* what validate_and_refresh_gcal_token returned
    event_data,        \* what create_google_calendar_event returned
    booking_id,        \* what store_event_booking returned
    current_time,      \* the clock as validate_and_refresh_gcal_token read it
    db,                \* the global SupabaseDatabase: client and _connected
    calendar,          \* the events in the Google Calendar
    event_bookings,    \* the rows of table event_bookings
    call_history,      \* the call_history rows that say 'Booked'
    supabase_credentials  \* whether SUPABASE_URL and SUPABASE_ANON_KEY are set

bookVars == <<call_sid, time_utc, token_data, event_data, booking_id, current_time>>
worldVars == <<db, calendar, event_bookings, call_history, supabase_credentials>>
callVars == <<start_date, end_date, proposed_time, context, result, calls, bookVars, worldVars>>
paramVars == <<busy_periods, timezone, booking_settings>>
setupVars == <<tz, start_local, end_local, busy_times>>
loopVars == <<slots, current_date, day_slots, slot_start, day_end, slot_end, earliest_slot>>
vars == <<pc, callVars, paramVars, setupVars, loopVars>>

NoDt == [wall |-> 0, off |-> 0]

\* --------------------------------------------------------- SupabaseDatabase

\* __init__ (database.py, lines 24-26)
NewDatabase == [client |-> None, _connected |-> FALSE]

\* What a call of connect() meets: credentials missing, create_client
\* raising, the test query raising, or neither.
ConnectOutcomes == {"no_credentials", "create_failed", "test_failed", "ok"}

\* Mutant: a failed connect() leaves the flag as it was.
MutConnectKeepsFlag(d, outcome, new_client) ==
    CASE outcome = "no_credentials" -> d
      [] outcome = "create_failed" -> d
      [] outcome = "test_failed" -> [d EXCEPT !.client = new_client]
      [] outcome = "ok" -> [client |-> new_client, _connected |-> TRUE]

\* connect() (lines 35-58): the object afterwards.
Connect(d, outcome, new_client) ==
    CASE outcome = "no_credentials" -> d
      [] outcome = "create_failed" -> [d EXCEPT !._connected = FALSE]
      [] outcome = "test_failed" -> [client |-> new_client, _connected |-> FALSE]
      [] outcome = "ok" -> [client |-> new_client, _connected |-> TRUE]

\* what connect() returns (lines 42, 53, 58)
ConnectReturns(outcome) == outcome = "ok"

\* disconnect() (lines 77-85)
Disconnect(d) ==
    IF d.client # None THEN [client |-> None, _connected |-> FALSE] ELSE d

\* is_connected() (line 94)
IsConnected(d) == d._connected /\ d.client # None

\* The database of a server whose startup connected it.
ServerDatabase == Connect(NewDatabase, "ok", [id |-> 0])

\* ---------------------------------------------- _generate_available_slots

\* Mutant: slots have no length unless the settings give one.
MutSlotLengthZero(bs) == Get(bs, "slotLengthMinutes", 0)

\* business_hours, slot_length of lines 65-75
BusinessHours(bs) == Get(bs, "businessBookingHours", DefaultBusinessHours)
SlotLength(bs) == Get(bs, "slotLengthMinutes", DefaultSlotLength)

\* day_config of lines 91-92
DayConfig(bs, date) == Get(BusinessHours(bs), DayName(date), [enabled |-> FALSE])
\* Mutant: a day without an 'enabled' field counts as enabled.
MutDayEnabledDefaultTrue(bs, date) == Get(DayConfig(bs, date), "enabled", TRUE)

DayEnabled(bs, date) == Get(DayConfig(bs, date), "enabled", FALSE)
\* Mutant: a day without 'startHour' opens at midnight.
MutStartHourDefaultsToMidnight(bs, date) == Get(DayConfig(bs, date), "startHour", 0)
StartHour(bs, date) == Get(DayConfig(bs, date), "startHour", DefaultStartHour)
EndHour(bs, date) == Get(DayConfig(bs, date), "endHour", DefaultEndHour)

\* tz.localize(datetime.combine(current_date, time(hour)))
AtHour(zone, date, hour) == Localize(zone, date * MinutesPerDay + hour * 60)

\* Mutant: only a slot that starts inside a busy period counts as busy.
MutOverlapsStartInside(s_start, s_end, b_start, b_end) ==
    DtLe(b_start, s_start) /\ DtLt(s_start, b_end)

\* Mutant: closed intervals, touching counts as overlap.
MutOverlapsClosed(s_start, s_end, b_start, b_end) ==
    DtLe(s_start, b_end) /\ DtLe(b_start, s_end)

\* Mutant: a busy period is widened by bufferMinutes on both sides.
MutOverlapsBuffered(s_start, s_end, b_start, b_end) ==
    \E p \in Procs :
        /\ pc[p] = "slot_loop"
        /\ slot_start[p] = s_start
        /\ Instant(s_start) < Instant(b_end) + Get(booking_settings[p], "bufferMinutes", 0)
        /\ Instant(b_start) - Get(booking_settings[p], "bufferMinutes", 0) < Instant(s_end)

\* the overlap test of line 113
Overlaps(s_start, s_end, b_start, b_end) ==
    DtLt(s_start, b_end) /\ DtLt(b_start, s_end)

\* Mutant: busy_times is one list shared by all invocations.
MutIsBusyShared(s_start, s_end, busy) ==
    \E p \in Procs : \E i \in 1..Len(busy_times[p]) :
        Overlaps(s_start, s_end, busy_times[p][i][1], busy_times[p][i][2])

\* is_busy of lines 111-115
IsBusy(s_start, s_end, busy) ==
    \E i \in 1..Len(busy) : Overlaps(s_start, s_end, busy[i][1], busy[i][2])

\* Mutant: a slot that merely overlaps the window is kept.
MutInWindowOverlap(s_start, s_end, w_start, w_end) ==
    DtLt(w_start, s_end) /\ DtLt(s_start, w_end)

\* Mutant: the end of the window is not tested.
MutInWindowStartOnly(s_start, s_end, w_start, w_end) == DtLe(w_start, s_start)

\* the window test of line 124
InWindow(s_start, s_end, w_start, w_end) ==
    DtLe(w_start, s_start) /\ DtLe(s_end, w_end)

\* Mutant: slots are taken to last an hour whatever the slot length.
MutSlotEndHour(s_start, length) == PlusMinutes(s_start, 60)

\* slot_end of line 108
SlotEnd(s_start, length) == PlusMinutes(s_start, length)

\* Mutant: a candidate earlier than the earliest clock reading plus
\* minimumAdvanceMinutes is dropped.
MutKeepSlotMinAdvance(s_start, s_end, busy, w_start, w_end) ==
    /\ ~IsBusy(s_start, s_end, busy)
    /\ InWindow(s_start, s_end, w_start, w_end)
    /\ \A p \in Procs :
        (pc[p] = "slot_loop" /\ slot_start[p] = s_start) =>
            Instant(s_start) >= (0 - MinutesPerDay) +
                Get(booking_settings[p], "minimumAdvanceMinutes", 120)

\* the condition of line 124
KeepSlot(s_start, s_end, busy, w_start, w_end) ==
    ~IsBusy(s_start, s_end, busy) /\ InWindow(s_start, s_end, w_start, w_end)

\* buffer_minutes of line 76
BufferMinutes(bs) == Get(bs, "bufferMinutes", DefaultBufferMinutes)

\* min_advance of line 119
MinAdvance(bs) == Get(bs, "minimumAdvanceMinutes", DefaultMinAdvance)

\* Mutant: a slot ending exactly at closing time is dropped.
MutSlotFitsStrict(s_start, length, d_end) == DtLt(PlusMinutes(s_start, length), d_end)

\* the loop condition of line 107
SlotFits(s_start, length, d_end) == DtLe(PlusMinutes(s_start, length), d_end)

\* What the clock may read at line 118: before every window of the model,
\* or after every one.
NowChoices ==
    {[wall |-> 0 - MinutesPerDay, off |-> 0],
     [wall |-> (LastDay + 2) * MinutesPerDay, off |-> 0]}

\* the loop condition of line 90
DayInRange(date, e_local) == date <= DateOf(e_local)

\* the slot dict of lines 125-128
MakeSlot(s_start) == [time |-> IsoFormat(s_start), attendees |-> 1]

\* Mutant: a day whose last slot starts before the earliest bookable time
\* last computed from the clock is not stored.
MutDictSetUnlessTooSoon(d, key, val) ==
    IF \E p \in Procs :
        /\ pc[p] = "slot_loop"
        /\ day_slots[p] = val
        /\ earliest_slot[p] # NoDt
        /\ Instant(FromIso(val[Len(val)].time)) < Instant(earliest_slot[p])
    THEN d
    ELSE Append(d, [key |-> key, val |-> val])

\* Mutant: a new date goes to the front of the dict.
MutDictSetInFront(d, key, val) == <<[key |-> key, val |-> val]>> \o d

\* slots[key] = val on an insertion-ordered dict
DictSet(d, key, val) ==
    IF \E i \in 1..Len(d) : d[i].key = key
    THEN [i \in 1..Len(d) |-> IF d[i].key = key THEN [key |-> key, val |-> val] ELSE d[i]]
    ELSE Append(d, [key |-> key, val |-> val])

\* Mutant: a day is stored whether it has slots or not.
MutStoreDayAlways(d, key, val) == DictSet(d, key, val)

\* lines 132-133: a day is stored when it has slots
StoreDay(d, key, val) == IF val # <<>> THEN DictSet(d, key, val) ELSE d

\* Mutant: a busy period that does not parse is taken as it is.
MutBusyParsesLenient(busy) == TRUE

\* the parses of lines 80-83 all succeed
BusyParses(busy) == \A i \in 1..Len(busy) : Parses(busy[i].start) /\ Parses(busy[i].end)

\* Lines 50-88: parse the window, resolve the zone, parse the busy periods,
\* start the day loop; an unparsable string raises ValueError.
GenSetup(p) ==
    /\ pc[p] = "gen_setup"
    /\ IF Parses(start_date[p]) /\ Parses(end_date[p]) /\ BusyParses(busy_periods[p])
       THEN LET zone == ResolveTimezone(timezone[p])
                s_local == AsTimezone(FromIso(start_date[p]), zone)
            IN  /\ tz' = [tz EXCEPT ![p] = zone]
                /\ start_local' = [start_local EXCEPT ![p] = s_local]
                /\ end_local' = [end_local EXCEPT ![p] = AsTimezone(FromIso(end_date[p]), zone)]
                /\ busy_times' = [busy_times EXCEPT ![p] =
                        [i \in 1..Len(busy_periods[p]) |->
                            <<FromIso(busy_periods[p][i].start),
                              FromIso(busy_periods[p][i].end)>>]]
                /\ slots' = [slots EXCEPT ![p] = <<>>]
                /\ current_date' = [current_date EXCEPT ![p] = DateOf(s_local)]
                /\ pc' = [pc EXCEPT ![p] = "day_loop"]
       ELSE /\ pc' = [pc EXCEPT ![p] = "gen_raised"]
            /\ UNCHANGED <<setupVars, slots, current_date>>
    /\ UNCHANGED <<callVars, paramVars, day_slots, slot_start, day_end, slot_end, earliest_slot>>

\* Lines 90-96: a day that is disabled or missing is skipped.
SkipDay(p) ==
    /\ pc[p] = "day_loop"
    /\ DayInRange(current_date[p], end_local[p])
    /\ ~DayEnabled(booking_settings[p], current_date[p])
    /\ current_date' = [current_date EXCEPT ![p] = @ + 1]
    /\ UNCHANGED <<pc, callVars, paramVars, setupVars, slots, day_slots, slot_start,
                   day_end, slot_end, earliest_slot>>

\* Lines 98-105: an enabled day starts at startHour:00 and ends at endHour:00.
BeginDay(p) ==
    /\ pc[p] = "day_loop"
    /\ DayInRange(current_date[p], end_local[p])
    /\ DayEnabled(booking_settings[p], current_date[p])
    /\ day_slots' = [day_slots EXCEPT ![p] = <<>>]
    /\ slot_start' = [slot_start EXCEPT ![p] =
            AtHour(tz[p], current_date[p], StartHour(booking_settings[p], current_date[p]))]
    /\ day_end' = [day_end EXCEPT ![p] =
            AtHour(tz[p], current_date[p], EndHour(booking_settings[p], current_date[p]))]
    /\ pc' = [pc EXCEPT ![p] = "slot_loop"]
    /\ UNCHANGED <<callVars, paramVars, setupVars, slots, current_date, slot_end, earliest_slot>>

\* Lines 107-130: one candidate slot.  The clock is read and the earliest
\* bookable time computed from it, and the test of line 124 does not use it.
SlotStep(p) ==
    /\ pc[p] = "slot_loop"
    /\ SlotFits(slot_start[p], SlotLength(booking_settings[p]), day_end[p])
    /\ LET s_end == SlotEnd(slot_start[p], SlotLength(booking_settings[p]))
       IN  /\ slot_end' = [slot_end EXCEPT ![p] = s_end]
           /\ day_slots' = [day_slots EXCEPT ![p] =
                IF KeepSlot(slot_start[p], s_end, busy_times[p], start_local[p], end_local[p])
                THEN Append(@, MakeSlot(slot_start[p]))
                ELSE @]
    /\ \E now \in NowChoices :
        earliest_slot' = [earliest_slot EXCEPT ![p] =
            PlusMinutes(AsTimezone(now, tz[p]), MinAdvance(booking_settings[p]))]
    /\ slot_start' = [slot_start EXCEPT ![p] =
            PlusMinutes(@, SlotLength(booking_settings[p]))]
    /\ UNCHANGED <<pc, callVars, paramVars, setupVars, slots, current_date, day_end>>

\* Lines 132-135: the day's slots are stored when there are any.
EndDay(p) ==
    /\ pc[p] = "slot_loop"
    /\ ~SlotFits(slot_start[p], SlotLength(booking_settings[p]), day_end[p])
    /\ slots' = [slots EXCEPT ![p] = StoreDay(@, DateKey(current_date[p]), day_slots[p])]
    /\ current_date' = [current_date EXCEPT ![p] = @ + 1]
    /\ pc' = [pc EXCEPT ![p] = "day_loop"]
    /\ UNCHANGED <<callVars, paramVars, setupVars, day_slots, slot_start, day_end,
                   slot_end, earliest_slot>>

\* Line 137: the dict is returned and the locals of the loops are gone.
GenReturn(p) ==
    /\ pc[p] = "day_loop"
    /\ ~DayInRange(current_date[p], end_local[p])
    /\ pc' = [pc EXCEPT ![p] = "gen_returned"]
    /\ current_date' = [current_date EXCEPT ![p] = 0]
    /\ day_slots' = [day_slots EXCEPT ![p] = <<>>]
    /\ slot_start' = [slot_start EXCEPT ![p] = NoDt]
    /\ day_end' = [day_end EXCEPT ![p] = NoDt]
    /\ slot_end' = [slot_end EXCEPT ![p] = NoDt]
    /\ earliest_slot' = [earliest_slot EXCEPT ![p] = NoDt]
    /\ UNCHANGED <<callVars, paramVars, setupVars, slots>>

Generate(p) ==
    \/ GenSetup(p)
    \/ SkipDay(p)
    \/ BeginDay(p)
    \/ SlotStep(p)
    \/ EndDay(p)
    \/ GenReturn(p)

\* ---------------------------------------------- _check_availability_logic

\* A string that is None or missing is modelled by "".  created_at is the
\* instant, in seconds, its string denotes.
Stamp(sec) == [fmt |-> "iso", epoch |-> sec]
BadStamp == [fmt |-> "garbage", epoch |-> 0]

TokenCreated == 1000
GoogleCalendar ==
    [access_token |-> "token", selected_calendar |-> "work", refresh_token |-> "refresh",
     created_at |-> Stamp(TokenCreated), expires_in |-> 3600]

UserSettings(gcal) ==
    [user_id |-> "user",
     primary_calendar_integration |-> "google_calendar",
     integration_settings |-> [calendar |-> [google_calendar |-> gcal]]]

MakeContext(settings, profile, bs) ==
    [user_settings |-> settings, user_profile |-> profile, booking_settings |-> bs]

\* Contexts with which the call gets as far as slot generation.
GoodContexts ==
    {MakeContext(UserSettings(GoogleCalendar), [timezone |-> z], bs) :
        z \in TimezoneNames, bs \in BookingSettings}
      \cup {MakeContext(UserSettings(GoogleCalendar), EmptyDict, EmptyDict),
            MakeContext(UserSettings(Without(GoogleCalendar, "selected_calendar")),
                        [timezone |-> "UTC"], EmptyDict),
            [user_settings |-> UserSettings(GoogleCalendar),
             user_profile |-> [timezone |-> "UTC"]]}

\* Contexts that fail one of the checks of lines 186-216.
BadContexts ==
    {MakeContext([user_id |-> "user", integration_settings |-> EmptyDict],
                 [timezone |-> "UTC"], EmptyDict),
     MakeContext(UserSettings(EmptyDict), [timezone |-> "UTC"], EmptyDict),
     MakeContext(UserSettings([selected_calendar |-> "work"]),
                 [timezone |-> "UTC"], EmptyDict),
     MakeContext([integration_settings |-> [calendar |-> [google_calendar |-> GoogleCalendar]]],
                 [timezone |-> "UTC"], EmptyDict)}

Contexts == GoodContexts \cup BadContexts

\* google_cal_integration of lines 182-184
GoogleCalIntegration(ctx) ==
    Get(Get(Get(Get(ctx, "user_settings", EmptyDict),
                "integration_settings", EmptyDict),
            "calendar", EmptyDict),
        "google_calendar", EmptyDict)

\* timezone of line 195
ProfileTimezone(ctx) == Get(Get(ctx, "user_profile", EmptyDict), "timezone", "UTC")

\* Mutant: the user id is not looked at.
MutSettingsErrorNoUserId(ctx) ==
    IF GoogleCalIntegration(ctx) = EmptyDict
    THEN "No Google Calendar integration configured"
    ELSE IF Get(GoogleCalIntegration(ctx), "access_token", "") = ""
    THEN "Google Calendar integration not properly configured - missing access token"
    ELSE ""

\* The error, if any, of the checks of lines 186-216.
SettingsError(ctx) ==
    IF GoogleCalIntegration(ctx) = EmptyDict
    THEN "No Google Calendar integration configured"
    ELSE IF Get(GoogleCalIntegration(ctx), "access_token", "") = ""
    THEN "Google Calendar integration not properly configured - missing access token"
    ELSE IF Get(Get(ctx, "user_settings", EmptyDict), "user_id", "") = ""
    THEN "User ID not found"
    ELSE ""

ErrorResult(msg) == [error |-> msg]

\* Proposed times a caller passes: 09:00 UTC on Monday exactly, 400
\* microseconds, one millisecond and one second later, the same instant
\* written with +05:30, 13:00 UTC on Monday, and a string that does not parse.
ProposedTimes ==
    {[fmt |-> "Z", wall |-> Mon(9, 0), us |-> u, off |-> 0] :
        u \in {0, 400, 1000, 1000000}}
      \cup {[fmt |-> "offset", wall |-> Mon(14, 30), us |-> 0, off |-> 330],
            Z(Mon(13, 0)), Garbage}

\* Every slot of the dict, in iteration order (lines 278-279).
RECURSIVE AllSlots(_)
AllSlots(d) == IF d = <<>> THEN <<>> ELSE Head(d).val \o AllSlots(Tail(d))

\* Mutant: a proposed time within a second of a slot matches it.
MutSameWithinSecond(slot, proposed) ==
    /\ TimestampMs(slot.time) - TimestampMs(proposed) <= 1000
    /\ TimestampMs(proposed) - TimestampMs(slot.time) <= 1000

\* slot_timestamp == proposed_timestamp (line 285)
SameMillisecond(slot, proposed) == TimestampMs(slot.time) = TimestampMs(proposed)

\* match_found and matching_slot of lines 265-295
MatchFound(d, proposed) ==
    /\ proposed # None
    /\ Parses(proposed)
    /\ \E i \in 1..Len(AllSlots(d)) : SameMillisecond(AllSlots(d)[i], proposed)

MatchingSlot(d, proposed) ==
    IF MatchFound(d, proposed)
    THEN LET all == AllSlots(d)
             first == CHOOSE i \in 1..Len(all) :
                        /\ SameMillisecond(all[i], proposed)
                        /\ \A j \in 1..(i - 1) : ~SameMillisecond(all[j], proposed)
         IN  all[first]
    ELSE None

\* Mutant: the days are counted, not the slots.
MutTotalSlotsCountsDays(d) == Len(d)

\* sum(len(date_slots) for date_slots in slots.values())
RECURSIVE TotalSlots(_)
TotalSlots(d) == IF d = <<>> THEN 0 ELSE Len(Head(d).val) + TotalSlots(Tail(d))

\* Mutant: a proposed time that does not parse fails the whole call.
MutResultFailsUnparsed(d, proposed, zone) ==
    IF proposed # None /\ ~Parses(proposed)
    THEN ErrorResult("Availability check failed")
    ELSE [slots |-> d,
          matchFound |-> MatchFound(d, proposed),
          matchingSlot |-> MatchingSlot(d, proposed),
          timezone |-> zone,
          totalSlots |-> TotalSlots(d)]

\* the dict of lines 297-303
AvailabilityResult(d, proposed, zone) ==
    [slots |-> d,
     matchFound |-> MatchFound(d, proposed),
     matchingSlot |-> MatchingSlot(d, proposed),
     timezone |-> zone,
     totalSlots |-> TotalSlots(d)]

Fail(p, msg) ==
    /\ result' = [result EXCEPT ![p] = ErrorResult(msg)]
    /\ pc' = [pc EXCEPT ![p] = "done"]

\* Lines 171-175: the booking context of the call, or none.
FetchContext(p) ==
    /\ pc[p] = "fetch_context"
    /\ \E ctx \in Contexts \cup {None} :
        /\ context' = [context EXCEPT ![p] = ctx]
        /\ IF ctx = None
           THEN Fail(p, "Unable to fetch calendar settings")
           ELSE /\ pc' = [pc EXCEPT ![p] = "check_settings"]
                /\ UNCHANGED result
    /\ calls' = [calls EXCEPT ![p] = Append(@, "get_booking_context_by_call_sid")]
    /\ UNCHANGED <<start_date, end_date, proposed_time, paramVars, setupVars, loopVars,
                   bookVars, worldVars>>

\* Lines 178-216: integration, access token and user id must be there.
CheckSettings(p) ==
    /\ pc[p] = "check_settings"
    /\ IF SettingsError(context[p]) # ""
       THEN Fail(p, SettingsError(context[p]))
       ELSE /\ pc' = [pc EXCEPT ![p] = "validate_token"]
            /\ UNCHANGED result
    /\ UNCHANGED <<start_date, end_date, proposed_time, context, paramVars, setupVars, loopVars,
                   calls, bookVars, worldVars>>

\* Lines 218-225: the token is validated, or refreshed, or neither.
ValidateToken(p) ==
    /\ pc[p] = "validate_token"
    /\ \E valid \in BOOLEAN :
        IF valid
        THEN /\ pc' = [pc EXCEPT ![p] = "freebusy"]
             /\ UNCHANGED result
        ELSE Fail(p, "Unable to validate Google Calendar credentials")
    /\ calls' = [calls EXCEPT ![p] = Append(@, "validate_and_refresh_gcal_token")]
    /\ UNCHANGED <<start_date, end_date, proposed_time, context, paramVars, setupVars, loopVars,
                   bookVars, worldVars>>

\* Lines 230-262: the FreeBusy query; on 200 its busy periods, the profile's
\* timezone and the booking settings go to the generator.
FreeBusy(p) ==
    /\ pc[p] = "freebusy"
    /\ \E status \in {200, 403} :
        IF status # 200
        THEN /\ Fail(p, "Google Calendar API error")
             /\ calls' = [calls EXCEPT ![p] = Append(@, "freeBusy")]
             /\ UNCHANGED paramVars
        ELSE \E busy \in BusyLists :
             /\ busy_periods' = [busy_periods EXCEPT ![p] = busy]
             /\ timezone' = [timezone EXCEPT ![p] = ProfileTimezone(context[p])]
             /\ booking_settings' = [booking_settings EXCEPT ![p] =
                    Get(context[p], "booking_settings", EmptyDict)]
             /\ calls' = [calls EXCEPT ![p] =
                    @ \o <<"freeBusy", "_generate_available_slots">>]
             /\ pc' = [pc EXCEPT ![p] = "gen_setup"]
             /\ UNCHANGED result
    /\ UNCHANGED <<start_date, end_date, proposed_time, context, setupVars, loopVars,
                   bookVars, worldVars>>

\* Lines 264-303: the proposed time, read here for the first time, is
\* looked up among the slots and the result is returned.
MatchProposed(p) ==
    /\ pc[p] = "gen_returned"
    /\ \E proposed \in ProposedTimes \cup {None} :
        /\ proposed_time' = [proposed_time EXCEPT ![p] = proposed]
        /\ result' = [result EXCEPT ![p] =
                AvailabilityResult(slots[p], proposed, timezone[p])]
    /\ pc' = [pc EXCEPT ![p] = "done"]
    /\ UNCHANGED <<start_date, end_date, context, paramVars, setupVars, loopVars,
                   calls, bookVars, worldVars>>

\* Lines 305-307: whatever was raised becomes an error result.
HandleException(p) ==
    /\ pc[p] = "gen_raised"
    /\ Fail(p, "Availability check failed")
    /\ UNCHANGED <<start_date, end_date, proposed_time, context, paramVars, setupVars, loopVars,
                   calls, bookVars, worldVars>>

CheckAvailability(p) ==
    \/ FetchContext(p)
    \/ CheckSettings(p)
    \/ ValidateToken(p)
    \/ FreeBusy(p)
    \/ Generate(p)
    \/ MatchProposed(p)
    \/ HandleException(p)

\* ------------------------------------------------------------ specification

IdleFrame ==
    /\ proposed_time = [p \in Procs |-> None]
    /\ result = [p \in Procs |-> None]
    /\ tz = [p \in Procs |-> "UTC"]
    /\ start_local = [p \in Procs |-> NoDt]
    /\ end_local = [p \in Procs |-> NoDt]
    /\ busy_times = [p \in Procs |-> <<>>]
    /\ slots = [p \in Procs |-> <<>>]
    /\ current_date = [p \in Procs |-> 0]
    /\ day_slots = [p \in Procs |-> <<>>]
    /\ slot_start = [p \in Procs |-> NoDt]
    /\ day_end = [p \in Procs |-> NoDt]
    /\ slot_end = [p \in Procs |-> NoDt]
    /\ earliest_slot = [p \in Procs |-> NoDt]
    /\ calls = [p \in Procs |-> <<>>]
    /\ token_data = [p \in Procs |-> None]
    /\ event_data = [p \in Procs |-> None]
    /\ booking_id = [p \in Procs |-> None]
    /\ current_time = [p \in Procs |-> 0]
    /\ calendar = {}
    /\ event_bookings = {}
    /\ call_history = {}

IdleLocals ==
    /\ context = [p \in Procs |-> None]
    /\ call_sid = [p \in Procs |-> ""]
    /\ time_utc = [p \in Procs |-> Garbage]
    /\ IdleFrame

\* A call that is not one of the slot generator leaves its arguments unset.
NoGeneratorArguments ==
    /\ start_date = [p \in Procs |-> Garbage]
    /\ end_date = [p \in Procs |-> Garbage]
    /\ busy_periods = [p \in Procs |-> <<>>]
    /\ timezone = [p \in Procs |-> "UTC"]
    /\ booking_settings = [p \in Procs |-> EmptyDict]

\* One call of check_availability, with any window.
Init ==
    /\ pc = [p \in Procs |-> IF p = 1 THEN "fetch_context" ELSE "idle"]
    /\ \E s \in WindowTimes, e \in WindowTimes :
        /\ start_date = [p \in Procs |-> Z(s)]
        /\ end_date = [p \in Procs |-> Z(e)]
    /\ busy_periods = [p \in Procs |-> <<>>]
    /\ timezone = [p \in Procs |-> "UTC"]
    /\ booking_settings = [p \in Procs |-> EmptyDict]
    /\ db = ServerDatabase
    /\ supabase_credentials = TRUE
    /\ IdleLocals

Next == CheckAvailability(1)

Spec == Init /\ [][Next]_vars

\* One call of check_availability for the whole week of the model, or with
\* a start_date that is no timestamp.
InitWeek ==
    /\ pc = [p \in Procs |-> IF p = 1 THEN "fetch_context" ELSE "idle"]
    /\ \E s \in {Z(0), Garbage} : start_date = [p \in Procs |-> s]
    /\ end_date = [p \in Procs |-> Z(LastDay * MinutesPerDay)]
    /\ busy_periods = [p \in Procs |-> <<>>]
    /\ timezone = [p \in Procs |-> "UTC"]
    /\ booking_settings = [p \in Procs |-> EmptyDict]
    /\ db = ServerDatabase
    /\ supabase_credentials = TRUE
    /\ IdleLocals

SpecWeek == InitWeek /\ [][Next]_vars

\* Two direct calls of _generate_available_slots, one after the other as
\* the event loop runs them (the coroutine has no await in it): the second
\* gets the arguments of the first, but for a timezone that may be UTC
\* instead.
Finished(p) == pc[p] \in {"gen_returned", "gen_raised"}

Dispatch(p) ==
    /\ pc[p] = "queued"
    /\ \A q \in Procs : q < p => Finished(q)
    /\ pc' = [pc EXCEPT ![p] = "gen_setup"]
    /\ UNCHANGED <<callVars, paramVars, setupVars, loopVars>>

InitPair ==
    /\ pc = [p \in Procs |-> "queued"]
    /\ \E s \in WindowTimes, e \in WindowTimes :
        /\ start_date = [p \in Procs |-> Z(s)]
        /\ end_date = [p \in Procs |-> Z(e)]
    /\ \E busy \in BusyLists : busy_periods = [p \in Procs |-> busy]
    /\ \E bs \in BookingSettings : booking_settings = [p \in Procs |-> bs]
    /\ \E z \in TimezoneNames, other \in {"same", "UTC"} :
        timezone = [p \in Procs |-> IF p = 2 /\ other = "UTC" THEN "UTC" ELSE z]
    /\ db = ServerDatabase
    /\ supabase_credentials = TRUE
    /\ IdleLocals

NextPair == \E p \in Procs : Dispatch(p) \/ Generate(p)

SpecPair == InitPair /\ [][NextPair]_vars

\* Two direct calls, one after the other, whose booking settings differ in
\* one field: the second caller sets minimumAdvanceMinutes or bufferMinutes,
\* or writes out a value the first left to its default.
SettingsZones == {"UTC", "America/New_York"}
SettingsBusyLists == {<<>>, <<BusyMon11>>, <<BusyMonPartial>>, <<BusySunday>>}
MinAdvanceChoices == {0, 3 * MinutesPerDay}
BufferChoices == {0, 30}

\* Monday to Friday 09:00-17:00 enabled, Saturday and Sunday disabled.
WeekdaysNineToFive ==
    LET open == [enabled |-> TRUE, startHour |-> 9, endHour |-> 17]
        shut == [enabled |-> FALSE]
    IN  [monday |-> open, tuesday |-> open, wednesday |-> open,
         thursday |-> open, friday |-> open, saturday |-> shut, sunday |-> shut]

\* The enabled days of supplied business hours that lack a field.
DaysLacking(bs, field) ==
    IF "businessBookingHours" \in DOMAIN bs
    THEN {day \in DOMAIN bs.businessBookingHours :
            /\ Get(bs.businessBookingHours[day], "enabled", FALSE)
            /\ field \notin DOMAIN bs.businessBookingHours[day]}
    ELSE {}

WithDayField(bs, day, field, v) ==
    With(bs, "businessBookingHours",
         With(bs.businessBookingHours, day,
              With(bs.businessBookingHours[day], field, v)))

\* The settings with one absent field written out as 9, 17, 60 or the
\* weekday hours.
WrittenOut(bs) ==
    {WithDayField(bs, day, "startHour", 9) : day \in DaysLacking(bs, "startHour")}
      \cup {WithDayField(bs, day, "endHour", 17) : day \in DaysLacking(bs, "endHour")}
      \cup {WithDayField(WithDayField(bs, day, "startHour", 9), day, "endHour", 17) :
                day \in DaysLacking(bs, "startHour") \cap DaysLacking(bs, "endHour")}
      \cup (IF "businessBookingHours" \in DOMAIN bs THEN {}
            ELSE {With(bs, "businessBookingHours", WeekdaysNineToFive)})
      \cup (IF "slotLengthMinutes" \in DOMAIN bs THEN {}
            ELSE {With(bs, "slotLengthMinutes", 60)})

Variants(bs) ==
    {With(bs, "minimumAdvanceMinutes", v) : v \in MinAdvanceChoices}
      \cup {With(bs, "bufferMinutes", v) : v \in BufferChoices}
      \cup WrittenOut(bs)

InitSettings ==
    /\ pc = [p \in Procs |-> "queued"]
    /\ \E s \in WindowTimes, e \in WindowTimes :
        /\ start_date = [p \in Procs |-> Z(s)]
        /\ end_date = [p \in Procs |-> Z(e)]
    /\ \E busy \in SettingsBusyLists : busy_periods = [p \in Procs |-> busy]
    /\ \E z \in SettingsZones : timezone = [p \in Procs |-> z]
    /\ \E bs \in BookingSettings : \E other \in Variants(bs) :
        booking_settings = [p \in Procs |-> IF p = 1 THEN bs ELSE other]
    /\ db = ServerDatabase
    /\ supabase_credentials = TRUE
    /\ IdleLocals

SpecSettings == InitSettings /\ [][NextPair]_vars

\* Two calls in flight at once, each with arguments of its own, their
\* steps interleaved in any order.
ConcurrentJobs ==
    [start : {Z(Mon(0, 0))},
     end : {Z(Mon(10, 30)), Z(Mon(24, 0))},
     busy : {<<>>, <<BusyMon11>>},
     timezone : {"UTC", "Asia/Kolkata"},
     settings : {[businessBookingHours |-> HoursA],
                 [businessBookingHours |-> HoursA, slotLengthMinutes |-> 45]}]

Invoke(p) ==
    /\ pc[p] = "queued"
    /\ pc' = [pc EXCEPT ![p] = "gen_setup"]
    /\ UNCHANGED <<callVars, paramVars, setupVars, loopVars>>

InitConcurrent ==
    /\ pc = [p \in Procs |-> "queued"]
    /\ \E job \in [Procs -> ConcurrentJobs] :
        /\ start_date = [p \in Procs |-> job[p].start]
        /\ end_date = [p \in Procs |-> job[p].end]
        /\ busy_periods = [p \in Procs |-> job[p].busy]
        /\ timezone = [p \in Procs |-> job[p].timezone]
        /\ booking_settings = [p \in Procs |-> job[p].settings]
    /\ db = ServerDatabase
    /\ supabase_credentials = TRUE
    /\ IdleLocals

NextConcurrent == \E p \in Procs : Invoke(p) \/ Generate(p)

SpecConcurrent == InitConcurrent /\ [][NextConcurrent]_vars

\* Two direct calls, one after the other.  The first has business hours
\* late on Sunday and early on Monday, so that in New York and in Kolkata
\* its slots lie on another date in UTC than locally; the second has slots
\* of one minute in a single hour of Monday.
HoursEdge ==
    [sunday |-> [enabled |-> TRUE, startHour |-> 20, endHour |-> 23],
     monday |-> [enabled |-> TRUE, startHour |-> 0, endHour |-> 5]]
HoursBrief == [monday |-> [enabled |-> TRUE, startHour |-> 9, endHour |-> 10]]
DatesBusyLists == {<<>>, <<BusyMon11>>}

InitDates ==
    /\ pc = [p \in Procs |-> "queued"]
    /\ \E s \in WindowTimes, e \in WindowTimes :
        /\ start_date = [p \in Procs |-> Z(s)]
        /\ end_date = [p \in Procs |-> Z(e)]
    /\ \E busy \in DatesBusyLists : busy_periods = [p \in Procs |-> busy]
    /\ \E z \in TimezoneNames : timezone = [p \in Procs |-> z]
    /\ \E first \in {[businessBookingHours |-> HoursEdge],
                     [businessBookingHours |-> HoursEdge, slotLengthMinutes |-> 45]} :
        booking_settings = [p \in Procs |->
            IF p = 1 THEN first
            ELSE [businessBookingHours |-> HoursBrief, slotLengthMinutes |-> 1]]
    /\ db = ServerDatabase
    /\ supabase_credentials = TRUE
    /\ IdleLocals

SpecDates == InitDates /\ [][NextPair]_vars

\* The interpreter runs a coroutine that is ready: a call that can take a
\* step takes one.
SpecDatesFair == SpecDates /\ WF_vars(NextPair)

\* ------------------------------------------ validate_and_refresh_gcal_token
\* (database.py)   Token times are counted in seconds.

generatorVars == <<paramVars, setupVars, loopVars>>
requestVars == <<start_date, end_date, proposed_time>>

ExpiryBuffer == 120
DefaultExpiresIn == 3600

\* gcal_settings of lines 218-220
GcalSettings(us) ==
    Get(Get(Get(us, "integration_settings", EmptyDict), "calendar", EmptyDict),
        "google_calendar", EmptyDict)

\* Why the function returns None before it compares any time (lines
\* 206-238), or "" when it gets as far as the comparison; dateutil raises
\* on a created_at that is no timestamp.
TokenPrecheck(d, us) ==
    IF ~IsConnected(d) THEN "not connected"
    ELSE IF Get(us, "primary_calendar_integration", "") # "google_calendar"
    THEN "not google_calendar"
    ELSE IF GcalSettings(us) = EmptyDict THEN "no settings"
    ELSE IF Get(GcalSettings(us), "created_at", None) = None
            \/ Get(GcalSettings(us), "expires_in", 0) = 0
    THEN "no timing data"
    ELSE IF GcalSettings(us).created_at.fmt = "garbage" THEN "raised"
    ELSE ""

\* expiration_time of line 239
ExpirationTime(gcal) == gcal.created_at.epoch + (gcal.expires_in - ExpiryBuffer)

\* Mutant: the token still counts as valid at the instant it expires.
MutTokenValidAtExpiry(gcal, now) == now <= ExpirationTime(gcal)

\* current_time < expiration_time (line 242)
TokenValid(gcal, now) == now < ExpirationTime(gcal)

\* What the refresh request meets (lines 284-329), and the bodies of a 200.
RefreshOutcomes == {"no_oauth_credentials", "network_error", "status_400", "status_200"}
ResponseBodies ==
    {[access_token |-> "token2", expires_in |-> 3599, scope |-> "calendar",
      token_type |-> "Bearer"],
     [access_token |-> "token3", refresh_token |-> "rotated"]}

\* Mutant: the refresh token is read from the response.
MutRefreshedFromResponse(refresh_token, body, now) ==
    [access_token |-> Get(body, "access_token", ""),
     refresh_token |-> Get(body, "refresh_token", ""),
     expires_in |-> Get(body, "expires_in", DefaultExpiresIn),
     scope |-> Get(body, "scope", ""),
     token_type |-> Get(body, "token_type", "Bearer"),
     created_at |-> Stamp(now)]

\* the dict of lines 318-325
RefreshedTokenData(refresh_token, body, now) ==
    [access_token |-> Get(body, "access_token", ""),
     refresh_token |-> refresh_token,
     expires_in |-> Get(body, "expires_in", DefaultExpiresIn),
     scope |-> Get(body, "scope", ""),
     token_type |-> Get(body, "token_type", "Bearer"),
     created_at |-> Stamp(now)]

\* What update_gcal_credentials meets (lines 343-393) and the requests it
\* sends: the RPC, and the table update when the RPC raises.
UpdateOutcomes == {"rpc_ok", "fallback_ok", "fallback_no_rows", "fallback_raised"}
UpdateRequests(d, outcome) ==
    IF ~IsConnected(d) THEN <<>>
    ELSE IF outcome = "rpc_ok" THEN <<"rpc update_gcal_credentials">>
    ELSE <<"rpc update_gcal_credentials", "update user_settings">>

\* What the clock reads at line 240: a second before, at and a second
\* after the expiration of a token of 60 and of 3600 seconds, and much later.
TokenClock ==
    {TokenCreated + e - ExpiryBuffer + d : e \in {60, 3600}, d \in {0 - 1, 0, 1}}
      \cup {9000}

TokenReturn(p, value) ==
    /\ token_data' = [token_data EXCEPT ![p] = value]
    /\ pc' = [pc EXCEPT ![p] = "token_returned"]

\* Lines 206-253: the early returns, the comparison with the clock, and
\* the refresh token.
TokenCheck(p) ==
    /\ pc[p] = "token_check"
    /\ LET us == context[p].user_settings
           gcal == GcalSettings(us)
       IN  IF TokenPrecheck(db, us) # ""
           THEN /\ TokenReturn(p, None)
                /\ UNCHANGED current_time
           ELSE \E now \in TokenClock :
                /\ current_time' = [current_time EXCEPT ![p] = now]
                /\ IF TokenValid(gcal, now)
                   THEN TokenReturn(p, gcal)
                   ELSE IF Get(gcal, "refresh_token", "") = ""
                   THEN TokenReturn(p, None)
                   ELSE /\ pc' = [pc EXCEPT ![p] = "token_refresh"]
                        /\ UNCHANGED token_data
    /\ UNCHANGED <<requestVars, context, result, calls, call_sid, time_utc, event_data,
                   booking_id, worldVars, generatorVars>>

\* Lines 256-264 and refresh_google_calendar_token (271-329): without
\* OAuth credentials no request is sent; a status other than 200 raises.
TokenRefresh(p) ==
    /\ pc[p] = "token_refresh"
    /\ \E outcome \in RefreshOutcomes :
        /\ calls' = [calls EXCEPT ![p] =
                IF outcome = "no_oauth_credentials" THEN @
                ELSE Append(@, "POST oauth2.googleapis.com/token")]
        /\ IF outcome = "status_200"
           THEN \E body \in ResponseBodies : \E later \in {0, 1} :
                /\ token_data' = [token_data EXCEPT ![p] =
                        RefreshedTokenData(GcalSettings(context[p].user_settings).refresh_token,
                                           body, current_time[p] + later)]
                /\ pc' = [pc EXCEPT ![p] = "token_update"]
           ELSE TokenReturn(p, None)
    /\ UNCHANGED <<requestVars, context, result, call_sid, time_utc, event_data,
                   booking_id, current_time, worldVars, generatorVars>>

\* Line 260-261: the new credentials are written, or not, and returned.
TokenUpdate(p) ==
    /\ pc[p] = "token_update"
    /\ \E outcome \in UpdateOutcomes :
        calls' = [calls EXCEPT ![p] =
            Append(@, "update_gcal_credentials") \o UpdateRequests(db, outcome)]
    /\ pc' = [pc EXCEPT ![p] = "token_returned"]
    /\ UNCHANGED <<requestVars, context, result, bookVars, worldVars, generatorVars>>

ValidateAndRefresh(p) ==
    \/ TokenCheck(p)
    \/ TokenRefresh(p)
    \/ TokenUpdate(p)

\* user_settings the function is called with.
TokenSettings ==
    {UserSettings(GoogleCalendar),
     UserSettings(With(GoogleCalendar, "expires_in", 60)),
     UserSettings(Without(GoogleCalendar, "refresh_token")),
     UserSettings(Without(GoogleCalendar, "created_at")),
     UserSettings(With(GoogleCalendar, "expires_in", 0)),
     UserSettings(With(GoogleCalendar, "created_at", BadStamp)),
     UserSettings(EmptyDict),
     With(UserSettings(GoogleCalendar), "primary_calendar_integration", "cal_com"),
     Without(UserSettings(GoogleCalendar), "primary_calendar_integration")}

\* One direct call of validate_and_refresh_gcal_token, the database
\* connected or never connected.
InitToken ==
    /\ pc = [p \in Procs |-> IF p = 1 THEN "token_check" ELSE "idle"]
    /\ \E us \in TokenSettings :
        context = [p \in Procs |-> IF p = 1 THEN [user_settings |-> us] ELSE None]
    /\ db \in {ServerDatabase, NewDatabase}
    /\ supabase_credentials = TRUE
    /\ call_sid = [p \in Procs |-> ""]
    /\ time_utc = [p \in Procs |-> Garbage]
    /\ NoGeneratorArguments
    /\ IdleFrame

NextToken == ValidateAndRefresh(1)

SpecToken == InitToken /\ [][NextToken]_vars

\* ------------------------------------------ SupabaseDatabase, used alone

\* How many calls of connect() and disconnect() a behaviour makes.
MaxOps == 4

\* connect() is called; without credentials it returns at line 42, with
\* them it meets one of the other outcomes.  The log keeps what it returned.
DbConnect ==
    /\ Len(calls[1]) < MaxOps
    /\ \E outcome \in ConnectOutcomes :
        /\ (outcome = "no_credentials") <=> ~supabase_credentials
        /\ db' = Connect(db, outcome, [id |-> Len(calls[1]) + 1])
        /\ calls' = [calls EXCEPT ![1] =
                Append(@, IF ConnectReturns(outcome) THEN "connect True" ELSE "connect False")]
    /\ UNCHANGED <<pc, requestVars, context, result, bookVars, calendar, event_bookings,
                   call_history, supabase_credentials, generatorVars>>

\* disconnect() is called.
DbDisconnect ==
    /\ Len(calls[1]) < MaxOps
    /\ db' = Disconnect(db)
    /\ calls' = [calls EXCEPT ![1] = Append(@, "disconnect")]
    /\ UNCHANGED <<pc, requestVars, context, result, bookVars, calendar, event_bookings,
                   call_history, supabase_credentials, generatorVars>>

\* A new object (lines 24-26); the credentials are read once, at import.
InitDatabase ==
    /\ pc = [p \in Procs |-> "idle"]
    /\ db = NewDatabase
    /\ supabase_credentials \in BOOLEAN
    /\ NoGeneratorArguments
    /\ IdleLocals

NextDatabase == DbConnect \/ DbDisconnect

SpecDatabase == InitDatabase /\ [][NextDatabase]_vars

\* ------------------------------------------------- _book_appointment_logic

\* A returned string is the sequence of the pieces it is formatted from.
ErrorString(msg) == <<"Error: ", msg>>
Attendee == [first_name |-> "Test", last_name |-> "User", email |-> "test@example.com"]

\* the f-string of line 419
SuccessString(attendee, time, event) ==
    <<"Successfully booked appointment for ", Get(attendee, "first_name", ""), " ",
      Get(attendee, "last_name", ""), " at ", time, ". Event ID: ", Get(event, "id", None)>>

\* The booking context of a call whose token is good for an hour, and
\* contexts that lack a part, carry null for a part, name another
\* integration, or hold a token that lives 60 seconds or has no access_token.
BookingContext ==
    [user_settings |-> UserSettings(GoogleCalendar),
     user_profile |-> [timezone |-> "UTC"],
     call_history |-> [inbound_from_phone_number |-> "+61403722371"],
     contact |-> [id |-> "contact"],
     booking_settings |-> [slotLengthMinutes |-> 45]]

BookingContexts ==
    {BookingContext,
     Without(Without(BookingContext, "contact"), "booking_settings"),
     With(BookingContext, "user_settings", Without(UserSettings(GoogleCalendar), "user_id")),
     With(BookingContext, "user_settings",
          With(UserSettings(GoogleCalendar), "primary_calendar_integration", "cal_com")),
     With(BookingContext, "user_settings", None),
     With(BookingContext, "call_history", None),
     With(BookingContext, "user_settings",
          UserSettings(With(GoogleCalendar, "expires_in", 60))),
     With(BookingContext, "user_settings",
          UserSettings(Without(GoogleCalendar, "access_token")))}

\* duration_minutes of line 371
DurationMinutes(ctx) ==
    IF Get(ctx, "booking_settings", EmptyDict) # EmptyDict
    THEN Get(ctx.booking_settings, "slotLengthMinutes", DefaultSlotLength)
    ELSE DefaultSlotLength

\* The event the Calendar API creates and returns for a call (database.py,
\* lines 427-482).
NewEvent(p, time, minutes) ==
    [id |-> <<"event", p>>,
     start |-> IsoFormat(FromIso(time)),
     end |-> IsoFormat(PlusMinutes(FromIso(time), minutes))]

\* The row store_event_booking inserts (database.py, lines 516-529).
NewBooking(p, user_id, contact_id, event) ==
    [id |-> <<"booking", p>>, user_id |-> user_id, contact_id |-> contact_id,
     source |-> "google_calendar", source_booking_id |-> event.id,
     start_time |-> event.start, end_time |-> event.end]

bookLocals == <<context, token_data, event_data, booking_id, current_time>>

\* A return: the string goes to the caller and the locals are gone.
BookReturn(p, string) ==
    /\ result' = [result EXCEPT ![p] = string]
    /\ pc' = [pc EXCEPT ![p] = "done"]
    /\ context' = [context EXCEPT ![p] = None]
    /\ token_data' = [token_data EXCEPT ![p] = None]
    /\ event_data' = [event_data EXCEPT ![p] = None]
    /\ booking_id' = [booking_id EXCEPT ![p] = None]
    /\ current_time' = [current_time EXCEPT ![p] = 0]

\* Lines 326-330; a call starts when the calls before it have returned.
BookStart(p) ==
    /\ pc[p] = "book_start"
    /\ \A q \in Procs : q < p => pc[q] = "done"
    /\ IF call_sid[p] = ""
       THEN BookReturn(p, ErrorString("call_sid is required"))
       ELSE /\ pc' = [pc EXCEPT ![p] = "book_fetch"]
            /\ UNCHANGED <<result, bookLocals>>
    /\ UNCHANGED <<requestVars, calls, call_sid, time_utc, worldVars, generatorVars>>

\* Lines 335-339 and get_booking_context_by_call_sid (database.py,
\* 158-192): without a connection, data or a working RPC there is no context.
BookFetchContext(p) ==
    /\ pc[p] = "book_fetch"
    /\ calls' = [calls EXCEPT ![p] = Append(@, "get_booking_context_by_call_sid")]
    /\ \E ctx \in (IF IsConnected(db) THEN BookingContexts ELSE {}) \cup {None} :
        IF ctx = None
        THEN BookReturn(p, ErrorString("Unable to fetch booking context"))
        ELSE /\ context' = [context EXCEPT ![p] = ctx]
             /\ pc' = [pc EXCEPT ![p] = "book_context"]
             /\ UNCHANGED <<result, token_data, event_data, booking_id, current_time>>
    /\ UNCHANGED <<requestVars, call_sid, time_utc, worldVars, generatorVars>>

\* Mutant: the primary integration is not looked at.
MutContextErrorAnyIntegration(us) ==
    IF Get(us, "user_id", "") = "" THEN ErrorString("User ID not found")
    ELSE <<>>

\* The error, if any, of the checks of lines 348-357.
ContextError(us) ==
    IF Get(us, "user_id", "") = "" THEN ErrorString("User ID not found")
    ELSE IF Get(us, "primary_calendar_integration", "") # "google_calendar"
    THEN <<"Error: ", "Primary calendar integration is ",
           Get(us, "primary_calendar_integration", ""), ", not google_calendar">>
    ELSE <<>>

\* Lines 342-361: user id and primary integration; a user_settings that is
\* null raises AttributeError.
BookCheckContext(p) ==
    /\ pc[p] = "book_context"
    /\ LET us == Get(context[p], "user_settings", EmptyDict)
       IN  IF us = None
           THEN /\ pc' = [pc EXCEPT ![p] = "book_raised"]
                /\ UNCHANGED <<result, calls, bookLocals>>
           ELSE IF ContextError(us) # <<>>
           THEN /\ BookReturn(p, ContextError(us))
                /\ UNCHANGED calls
           ELSE /\ calls' = [calls EXCEPT ![p] =
                        Append(@, "validate_and_refresh_gcal_token")]
                /\ pc' = [pc EXCEPT ![p] = "token_check"]
                /\ UNCHANGED <<result, bookLocals>>
    /\ UNCHANGED <<requestVars, call_sid, time_utc, worldVars, generatorVars>>

\* What the request of create_google_calendar_event meets.
CreateOutcomes == {"status_200", "status_401", "network_error"}

\* Lines 363-388 and create_google_calendar_event (database.py, 396-489):
\* without an access token or a start time that parses no request is sent;
\* a 200 means the event is in the calendar.
BookCreateEvent(p) ==
    /\ pc[p] = "token_returned"
    /\ IF token_data[p] = None
       THEN /\ BookReturn(p, ErrorString("Unable to validate Google Calendar credentials"))
            /\ UNCHANGED <<calls, calendar>>
       ELSE IF Get(context[p], "call_history", EmptyDict) = None
       THEN /\ pc' = [pc EXCEPT ![p] = "book_raised"]
            /\ UNCHANGED <<result, calls, calendar, bookLocals>>
       ELSE IF Get(token_data[p], "access_token", "") = "" \/ ~Parses(time_utc[p])
       THEN /\ calls' = [calls EXCEPT ![p] = Append(@, "create_google_calendar_event")]
            /\ BookReturn(p, ErrorString("Failed to create calendar event"))
            /\ UNCHANGED calendar
       ELSE \E outcome \in CreateOutcomes :
            /\ calls' = [calls EXCEPT ![p] =
                    @ \o <<"create_google_calendar_event",
                           "POST calendars/primary/events">>]
            /\ IF outcome = "status_200"
               THEN LET event == NewEvent(p, time_utc[p], DurationMinutes(context[p]))
                    IN  /\ calendar' = calendar \cup {event}
                        /\ event_data' = [event_data EXCEPT ![p] = event]
                        /\ pc' = [pc EXCEPT ![p] = "book_store"]
                        /\ UNCHANGED <<result, context, token_data, booking_id, current_time>>
               ELSE /\ BookReturn(p, ErrorString("Failed to create calendar event"))
                    /\ UNCHANGED calendar
    /\ UNCHANGED <<requestVars, call_sid, time_utc, db, event_bookings, call_history,
                   supabase_credentials, generatorVars>>

\* What the insert of store_event_booking meets.
StoreOutcomes == {"inserted", "no_data", "raised"}

\* Lines 390-405 and store_event_booking (database.py, 492-543).
BookStore(p) ==
    /\ pc[p] = "book_store"
    /\ calls' = [calls EXCEPT ![p] = Append(@, "store_event_booking")]
    /\ \E outcome \in (IF IsConnected(db) THEN StoreOutcomes ELSE {"not_connected"}) :
        IF outcome = "inserted"
        THEN LET row == NewBooking(p, context[p].user_settings.user_id,
                                   Get(Get(context[p], "contact", EmptyDict), "id", None),
                                   event_data[p])
             IN  /\ event_bookings' = event_bookings \cup {row}
                 /\ booking_id' = [booking_id EXCEPT ![p] = row.id]
                 /\ pc' = [pc EXCEPT ![p] = "book_update"]
                 /\ UNCHANGED <<result, context, token_data, event_data, current_time>>
        ELSE /\ BookReturn(p, ErrorString("Failed to store booking record"))
             /\ UNCHANGED event_bookings
    /\ UNCHANGED <<requestVars, call_sid, time_utc, db, calendar, call_history,
                   supabase_credentials, generatorVars>>

\* Mutant: a call_history that could not be updated fails the booking.
MutHistoryResultFails(update_success, attendee, time, event) ==
    IF update_success THEN SuccessString(attendee, time, event)
    ELSE ErrorString("Failed to update call history")

\* Lines 414-419: a failed update is logged and the booking reported.
HistoryResult(update_success, attendee, time, event) ==
    SuccessString(attendee, time, event)

\* Lines 407-419 and update_call_history_booking (database.py, 546-582):
\* the update may fail; the call reports success either way.
BookUpdateHistory(p) ==
    /\ pc[p] = "book_update"
    /\ calls' = [calls EXCEPT ![p] = Append(@, "update_call_history_booking")]
    /\ \E update_success \in (IF IsConnected(db) THEN BOOLEAN ELSE {FALSE}) :
        /\ call_history' =
                IF update_success
                THEN call_history \cup {[twilio_callsid |-> call_sid[p],
                                         call_outcome |-> "Booked",
                                         event_booking_id |-> booking_id[p]]}
                ELSE call_history
        /\ BookReturn(p, HistoryResult(update_success, Attendee, time_utc[p], event_data[p]))
    /\ UNCHANGED <<requestVars, call_sid, time_utc, db, calendar, event_bookings,
                   supabase_credentials, generatorVars>>

\* Lines 421-423.
BookException(p) ==
    /\ pc[p] = "book_raised"
    /\ BookReturn(p, ErrorString("'NoneType' object has no attribute 'get'"))
    /\ UNCHANGED <<requestVars, calls, call_sid, time_utc, worldVars, generatorVars>>

BookAppointment(p) ==
    \/ BookStart(p)
    \/ BookFetchContext(p)
    \/ BookCheckContext(p)
    \/ ValidateAndRefresh(p)
    \/ BookCreateEvent(p)
    \/ BookStore(p)
    \/ BookUpdateHistory(p)
    \/ BookException(p)

\* Two calls of book_appointment for one phone call, the second, for an
\* hour later, after the first has returned; the first may lack a call sid
\* or carry a time that does not parse.
InitBooking ==
    /\ pc = [p \in Procs |-> "book_start"]
    /\ \E sid \in {"", "CA1"} : call_sid = [p \in Procs |-> IF p = 1 THEN sid ELSE "CA1"]
    /\ \E t \in {Z(Mon(9, 0)), Garbage} :
        time_utc = [p \in Procs |-> IF p = 1 THEN t ELSE Z(Mon(10, 0))]
    /\ context = [p \in Procs |-> None]
    /\ db \in {ServerDatabase, NewDatabase}
    /\ supabase_credentials = TRUE
    /\ NoGeneratorArguments
    /\ IdleFrame

NextBooking == \E p \in Procs : BookAppointment(p)

SpecBooking == InitBooking /\ [][NextBooking]_vars

\* ------------------------------------------------------------- properties

\* The instant, in minutes, an ISO string denotes.
IsoInstant(s) == s.wall - (IF s.fmt = "Z" THEN 0 ELSE s.off)

\* The dates a run of the model can visit, and the date a key stands for.
ModelDates == (0 - 1)..(LastDay + 1)
KeyDate(key) == CHOOSE d \in ModelDates : DateKey(d) = key

\* Every slot emitted so far, with the key of its date: those stored in the
\* dict and those collected for the day in progress.
Stored(p) ==
    UNION {{<<slots[p][i].key, slots[p][i].val[j]>> : j \in 1..Len(slots[p][i].val)} :
            i \in 1..Len(slots[p])}
Pending(p) ==
    IF pc[p] = "slot_loop"
    THEN {<<DateKey(current_date[p]), day_slots[p][j]>> : j \in 1..Len(day_slots[p])}
    ELSE {}
Emitted(p) == Stored(p) \cup Pending(p)

StartOf(e) == IsoInstant(e[2].time)

Length(p) == SlotLength(booking_settings[p])
Keys(p) == {slots[p][i].key : i \in 1..Len(slots[p])}

\* The start instants stored under a key.
StartsUnder(p, key) == {StartOf(e) : e \in {x \in Stored(p) : x[1] = key}}

\* Opening and closing instants of a date, and its grid candidates.
OpenAt(p, d) == Instant(AtHour(tz[p], d, StartHour(booking_settings[p], d)))
CloseAt(p, d) == Instant(AtHour(tz[p], d, EndHour(booking_settings[p], d)))
Candidates(p, d) ==
    LET open == OpenAt(p, d)
        close == CloseAt(p, d)
        len == Length(p)
    IN  {open + k * len : k \in
            {n \in 0..((24 * 60) \div len) : open + (n + 1) * len <= close}}

\* A candidate starting at c overlaps a busy period / lies within the window.
OverlapsBusy(p, c) ==
    \E i \in 1..Len(busy_periods[p]) :
        /\ c < IsoInstant(busy_periods[p][i].end)
        /\ c + Length(p) > IsoInstant(busy_periods[p][i].start)
WithinWindow(p, c) ==
    /\ c >= IsoInstant(start_date[p])
    /\ c + Length(p) <= IsoInstant(end_date[p])

\* The enabled dates from start's local date through end's.
EnabledDates(p) ==
    {d \in ModelDates :
        /\ DateOf(start_local[p]) <= d
        /\ d <= DateOf(end_local[p])
        /\ DayEnabled(booking_settings[p], d)}

\* Monday 00:00-24:00 UTC, Monday open 09:00-17:00, slots of 60 minutes.
MondayScenario(p) ==
    /\ start_date[p] = Z(Mon(0, 0))
    /\ end_date[p] = Z(Mon(24, 0))
    /\ timezone[p] = "UTC"
    /\ booking_settings[p] \in {EmptyDict, [businessBookingHours |-> HoursA]}

MondaySlots(hours) ==
    [i \in 1..Len(hours) |->
        [time |-> [fmt |-> "offset", wall |-> Mon(hours[i], 0), us |-> 0, off |-> 0],
         attendees |-> 1]]

\* C1: no emitted slot overlaps any busy period: for every emitted slot
\* [s, s + L) and busy period [b_start, b_end), NOT (s < b_end AND
\* s + L > b_start).
C1_NoOverlap ==
    \A e \in Emitted(1) : \A i \in 1..Len(busy_periods[1]) :
        ~(/\ StartOf(e) < IsoInstant(busy_periods[1][i].end)
          /\ StartOf(e) + Length(1) > IsoInstant(busy_periods[1][i].start))

\* A busy period lies between two emitted slots of a finished run, the
\* earlier one less than a slot length before it.
C1_Witness ==
    /\ pc[1] = "gen_returned"
    /\ \E i \in 1..Len(busy_periods[1]) : \E a \in Stored(1), b \in Stored(1) :
        /\ StartOf(a) + Length(1) <= IsoInstant(busy_periods[1][i].start)
        /\ StartOf(a) + 2 * Length(1) > IsoInstant(busy_periods[1][i].start)
        /\ StartOf(b) >= IsoInstant(busy_periods[1][i].end)

\* C2: every emitted slot starts at or after the window's start and ends at
\* or before the window's end.
C2_InsideWindow ==
    \A e \in Emitted(1) :
        /\ StartOf(e) >= IsoInstant(start_date[1])
        /\ StartOf(e) + Length(1) <= IsoInstant(end_date[1])

\* A window opening at 10:30 on Monday: the 09:00 and 10:00 candidates are
\* clipped and six slots are left.
C2_Witness ==
    /\ pc[1] = "gen_returned"
    /\ start_date[1] = Z(Mon(10, 30))
    /\ end_date[1] = Z(Mon(24, 0))
    /\ timezone[1] = "UTC"
    /\ booking_settings[1] = EmptyDict
    /\ busy_periods[1] = <<>>
    /\ slots[1] = <<[key |-> "2024-04-01", val |-> MondaySlots(<<11, 12, 13, 14, 15, 16>>)]>>

\* A weekday the supplied configuration switches off: its key is missing,
\* or its 'enabled' field is missing or false.
ConfigDisables(hours, day) ==
    \/ day \notin DOMAIN hours
    \/ "enabled" \notin DOMAIN hours[day]
    \/ hours[day].enabled = FALSE

\* C3: for a weekday that the supplied business-hours configuration
\* disables or omits, the result has no date key and no slot for any date on
\* that weekday, and no day of slots is ever started for it.
C3_DisabledDaysEmpty ==
    "businessBookingHours" \in DOMAIN booking_settings[1] =>
        \A d \in ModelDates :
            ConfigDisables(booking_settings[1].businessBookingHours, DayName(d)) =>
                /\ DateKey(d) \notin Keys(1)
                /\ \A e \in Emitted(1) :
                    e[1] # DateKey(d) /\ e[2].time.wall \div MinutesPerDay # d
                /\ ~(pc[1] = "slot_loop" /\ current_date[1] = d)

\* From Sunday to Tuesday with Sunday lacking 'enabled' and Tuesday closing
\* before it opens: only Monday has slots.
C3_Witness ==
    /\ pc[1] = "gen_returned"
    /\ start_date[1] = Z(0)
    /\ end_date[1] = Z(Mon(24, 0))
    /\ Get(booking_settings[1], "businessBookingHours", EmptyDict) = HoursB
    /\ Keys(1) = {"2024-04-01"}

\* C4: every emitted slot lies inside the business hours of its date, a
\* candidate that would end after closing time is never emitted, and a day
\* whose opening hour is not before its closing hour has no slots.
C4_InsideBusinessHours ==
    /\ \A e \in Emitted(1) :
        /\ StartOf(e) >= OpenAt(1, KeyDate(e[1]))
        /\ StartOf(e) + Length(1) <= CloseAt(1, KeyDate(e[1]))
    /\ \A d \in ModelDates :
        (/\ DayEnabled(booking_settings[1], d)
         /\ StartHour(booking_settings[1], d) >= EndHour(booking_settings[1], d))
            => /\ DateKey(d) \notin Keys(1)
               /\ \A e \in Emitted(1) : e[1] # DateKey(d)

\* On the Sunday the Troll clocks jump from 01:00 to 03:00, a configuration
\* opening at 3 and closing at 2 has its opening instant (01:00 UTC) before
\* its closing instant (02:00 UTC), and a slot is returned for that day.
C4_Witness ==
    /\ pc[1] = "gen_returned"
    /\ tz[1] = "Antarctica/Troll"
    /\ StartHour(booking_settings[1], 0) = 3
    /\ EndHour(booking_settings[1], 0) = 2
    /\ OpenAt(1, 0) < CloseAt(1, 0)
    /\ \E e \in Stored(1) : e[1] = DateKey(0) /\ StartOf(e) = TrollTransition

\* C5: when the generator returns, on every enabled date from start's
\* local date through end's, a grid candidate is in the result under that
\* date exactly if it overlaps no busy period and lies within the window;
\* the result holds nothing else; and Monday 00:00-24:00 with Monday open
\* 09:00-17:00, 60-minute slots and no busy period gives exactly the eight
\* slots 09:00, 10:00, ..., 16:00.
C5_Complete ==
    pc[1] = "gen_returned" =>
        /\ \A d \in EnabledDates(1) : \A c \in Candidates(1, d) :
            (c \in StartsUnder(1, DateKey(d)))
                <=> (~OverlapsBusy(1, c) /\ WithinWindow(1, c))
        /\ \A e \in Stored(1) :
            /\ KeyDate(e[1]) \in EnabledDates(1)
            /\ StartOf(e) \in Candidates(1, KeyDate(e[1]))
        /\ (MondayScenario(1) /\ busy_periods[1] = <<>>) =>
            slots[1] = <<[key |-> "2024-04-01",
                          val |-> MondaySlots(<<9, 10, 11, 12, 13, 14, 15, 16>>)]>>

\* The Monday scenario has run and returned eight slots.
C5_Witness ==
    /\ pc[1] = "gen_returned"
    /\ MondayScenario(1)
    /\ busy_periods[1] = <<>>
    /\ TotalSlots(slots[1]) = 8

\* Every emitted slot starts a whole number of slot lengths after opening
\* time.
C6_Grid ==
    \A e \in Emitted(1) :
        /\ StartOf(e) >= OpenAt(1, KeyDate(e[1]))
        /\ (StartOf(e) - OpenAt(1, KeyDate(e[1]))) % Length(1) = 0

\* A step of the slot loop tests the interval from slot_start to slot_end,
\* which is one slot length long, and a slot it emits starts at slot_start.
C6_Step ==
    (pc[1] = "slot_loop" /\ pc'[1] = "slot_loop" /\ slot_start'[1] # slot_start[1]) =>
        /\ Instant(slot_end'[1]) - Instant(slot_start[1]) = Length(1)
        /\ day_slots'[1] # day_slots[1] =>
            IsoInstant(day_slots'[1][Len(day_slots'[1])].time) = Instant(slot_start[1])

\* C6: every emitted slot starts on the day's grid (opening time plus
\* k slot lengths), and the interval tested for a slot is exactly one slot
\* length long.
C6_OnGridExactLength == [](C6_Grid) /\ [][C6_Step]_vars

\* Two slots of 45 minutes have been emitted for the day in progress.
C6_Witness ==
    /\ pc[1] = "slot_loop"
    /\ Length(1) = 45
    /\ Len(day_slots[1]) >= 2
    /\ Instant(slot_end[1]) = Instant(slot_start[1])

\* C7: a candidate that only touches busy periods (its end equal to a
\* busy start, or its start equal to a busy end) is not excluded by them:
\* every candidate within the window that ends at or before the start, or
\* starts at or after the end, of each busy period is in the result; and
\* a busy period 11:00-12:00 in the Monday scenario leaves the seven slots
\* 09:00, 10:00, 12:00, ..., 16:00.
C7_HalfOpen ==
    pc[1] = "gen_returned" =>
        /\ \A d \in EnabledDates(1) : \A c \in Candidates(1, d) :
            (/\ WithinWindow(1, c)
             /\ \A i \in 1..Len(busy_periods[1]) :
                    \/ c + Length(1) <= IsoInstant(busy_periods[1][i].start)
                    \/ c >= IsoInstant(busy_periods[1][i].end))
                => c \in StartsUnder(1, DateKey(d))
        /\ (MondayScenario(1) /\ busy_periods[1] = <<BusyMon11>>) =>
            slots[1] = <<[key |-> "2024-04-01",
                          val |-> MondaySlots(<<9, 10, 12, 13, 14, 15, 16>>)]>>

\* The Monday scenario with 11:00-12:00 busy has returned seven slots, one
\* ending when the busy period starts and one starting when it ends.
C7_Witness ==
    /\ pc[1] = "gen_returned"
    /\ MondayScenario(1)
    /\ busy_periods[1] = <<BusyMon11>>
    /\ TotalSlots(slots[1]) = 7
    /\ \E a \in Stored(1), b \in Stored(1) :
        /\ StartOf(a) + Length(1) = IsoInstant(BusyMon11.start)
        /\ StartOf(b) = IsoInstant(BusyMon11.end)

\* Epoch milliseconds of an ISO string, counted from minute 0 of the model.
EpochMs(s) == IsoInstant(s) * 60000 + (s.us \div 1000)

\* The slots of a returned mapping.
ResultSlots(r) ==
    UNION {{r.slots[i].val[j] : j \in 1..Len(r.slots[i].val)} : i \in 1..Len(r.slots)}

Succeeded(p) == pc[p] = "done" /\ "slots" \in DOMAIN result[p]

\* C8: with a proposed time that parses, matchFound is true exactly if a
\* slot of the returned mapping starts at the proposed epoch millisecond;
\* then matchingSlot is such a slot of the mapping, otherwise it is None; a
\* proposed time a second after a slot start that no slot starts at does
\* not match.
C8_ExactMatch ==
    (Succeeded(1) /\ proposed_time[1] # None /\ Parses(proposed_time[1])) =>
        LET r == result[1]
            hits == {x \in ResultSlots(r) : EpochMs(x.time) = EpochMs(proposed_time[1])}
        IN  /\ r.matchFound <=> hits # {}
            /\ r.matchFound => r.matchingSlot \in hits
            /\ ~r.matchFound => r.matchingSlot = None
            /\ (/\ proposed_time[1].us = 1000000
                /\ \A x \in ResultSlots(r) : x.time.us = 0
                /\ \A x \in ResultSlots(r) :
                    IsoInstant(x.time) # IsoInstant(proposed_time[1]) + 1)
                => ~r.matchFound

\* A proposed time written with another offset and 0 microseconds, matched
\* to the slot at the same instant.
C8_Witness ==
    /\ Succeeded(1)
    /\ proposed_time[1] # None
    /\ proposed_time[1].fmt = "offset"
    /\ result[1].matchFound
    /\ result[1].matchingSlot.time.off # proposed_time[1].off

SameButTimezone(p, q) ==
    /\ start_date[p] = start_date[q]
    /\ end_date[p] = end_date[q]
    /\ busy_periods[p] = busy_periods[q]
    /\ booking_settings[p] = booking_settings[q]

\* C10: a call with an unrecognized timezone name does not raise because
\* of it and returns what the call with "UTC" and the same other arguments
\* returns.
C10_InvalidTimezoneIsUTC ==
    \A p \in Procs : \A q \in Procs :
        (/\ timezone[p] \in InvalidZones
         /\ timezone[q] = "UTC"
         /\ SameButTimezone(p, q)) =>
            /\ (BusyParses(busy_periods[p]) => pc[p] # "gen_raised")
            /\ (Finished(p) /\ Finished(q)) =>
                pc[p] = pc[q] /\ slots[p] = slots[q]

\* Both calls have returned, one with "Mars/Phobos", the other with "UTC",
\* and there are slots.
C10_Witness ==
    /\ Finished(1) /\ Finished(2)
    /\ timezone[1] = "Mars/Phobos"
    /\ timezone[2] = "UTC"
    /\ slots[1] # <<>>
    /\ slots[2] # <<>>

\* Two calls got the same five arguments.
SameArguments(p, q) == SameButTimezone(p, q) /\ timezone[p] = timezone[q]

\* C11: two calls of the generator with identical arguments end in the
\* same way and return identical mappings, whatever the clock read at line
\* 118 in either of them and although one ran after the other.
C11_Deterministic ==
    \A p \in Procs : \A q \in Procs :
        (SameArguments(p, q) /\ Finished(p) /\ Finished(q)) =>
            pc[p] = pc[q] /\ slots[p] = slots[q]

\* The second call, made with the arguments of the first after it returned
\* two days of slots, has returned too.
C11_Witness ==
    /\ pc[1] = "gen_returned" /\ pc[2] = "gen_returned"
    /\ SameArguments(1, 2)
    /\ Len(slots[1]) >= 2
    /\ Len(slots[2]) >= 2

\* Two calls got the same arguments but for one field of booking_settings.
SameButSetting(p, q, field) ==
    /\ start_date[p] = start_date[q]
    /\ end_date[p] = end_date[q]
    /\ busy_periods[p] = busy_periods[q]
    /\ timezone[p] = timezone[q]
    /\ Without(booking_settings[p], field) = Without(booking_settings[q], field)

\* The slot loop of p has just tested a candidate; the candidate's start.
JustTested(p) ==
    pc[p] = "slot_loop" /\ slot_end[p] # NoDt /\ slot_start[p] = slot_end[p]
Tested(p) == Instant(slot_end[p]) - Length(p)

\* The candidate just tested passes the busy and window tests.
TestedPasses(p) == ~OverlapsBusy(p, Tested(p)) /\ WithinWindow(p, Tested(p))

\* The candidate just tested is the last slot of the day's list.
TestedAppended(p) ==
    /\ day_slots[p] # <<>>
    /\ IsoInstant(day_slots[p][Len(day_slots[p])].time) = Tested(p)

\* C12: two calls that differ only in minimumAdvanceMinutes return the
\* same mapping, and a candidate inside business hours that passes the busy
\* and window tests is appended whatever the earliest bookable time just
\* computed from the clock is.
C12_MinAdvanceNotEnforced ==
    /\ \A p \in Procs : \A q \in Procs :
        (/\ SameButSetting(p, q, "minimumAdvanceMinutes")
         /\ Finished(p) /\ Finished(q)) =>
            pc[p] = pc[q] /\ slots[p] = slots[q]
    /\ \A p \in Procs : (JustTested(p) /\ TestedPasses(p)) => TestedAppended(p)

\* A call with minimumAdvanceMinutes of three days, made when the clock is
\* past the whole window, has just appended a slot that lies in the past,
\* after a call without the setting returned its slots.
C12_Witness ==
    /\ pc[1] = "gen_returned"
    /\ slots[1] # <<>>
    /\ "minimumAdvanceMinutes" \notin DOMAIN booking_settings[1]
    /\ MinAdvance(booking_settings[2]) = 3 * MinutesPerDay
    /\ JustTested(2)
    /\ TestedAppended(2)
    /\ Tested(2) < Instant(earliest_slot[2]) - MinAdvance(booking_settings[2])

\* C13: a call given a proposed time that does not parse returns the
\* generated mapping and its slot count, without an 'error' key, with
\* matchFound false and matchingSlot None.
C13_UnparsableProposedTime ==
    (/\ pc[1] = "done"
     /\ proposed_time[1] # None
     /\ ~Parses(proposed_time[1])) =>
        /\ DOMAIN result[1] =
                {"slots", "matchFound", "matchingSlot", "timezone", "totalSlots"}
        /\ result[1].slots = slots[1]
        /\ result[1].totalSlots = Cardinality(Stored(1))
        /\ result[1].matchFound = FALSE
        /\ result[1].matchingSlot = None

\* The call has returned two days of slots to a caller whose proposed time
\* did not parse.
C13_Witness ==
    /\ pc[1] = "done"
    /\ proposed_time[1] = Garbage
    /\ Succeeded(1)
    /\ Len(result[1].slots) >= 2
    /\ result[1].totalSlots >= 2

\* Some busy period of the call has a start or an end that does not parse.
HasUnparsableBusy(p) ==
    \E i \in 1..Len(busy_periods[p]) :
        ~Parses(busy_periods[p][i].start) \/ ~Parses(busy_periods[p][i].end)

\* C14: when a busy period has an unparsable start or end, also next to
\* well-formed ones, the generator raises before it makes any slot, no day
\* is ever started, and the call returns a result whose only key is 'error'.
C14_UnparsableBusyIsOneError ==
    HasUnparsableBusy(1) =>
        /\ pc[1] \in {"gen_setup", "gen_raised", "done"}
        /\ slots[1] = <<>>
        /\ Emitted(1) = {}
        /\ pc[1] = "done" =>
            DOMAIN result[1] = {"error"} /\ result[1].error # ""

\* The call has returned its error for a busy list whose first period is
\* well formed and whose second has an unparsable end, on a window and
\* settings that give slots otherwise.
C14_Witness ==
    /\ pc[1] = "done"
    /\ busy_periods[1] = <<BusyMonPartial, BusyEndGarbage>>
    /\ result[1] = ErrorResult("Availability check failed")
    /\ start_date[1] = Z(0)
    /\ end_date[1] = Z(Mon(24, 0))
    /\ booking_settings[1] = EmptyDict

\* The start instants of a list of slots ascend strictly: each slot starts
\* before the next one.
Ascending(list) ==
    \A j \in 1..(Len(list) - 1) :
        IsoInstant(list[j].time) < IsoInstant(list[j + 1].time)

\* C15: at every point of the generation and in the returned mapping, the
\* slots under each date key and the slots of the day in progress ascend
\* strictly by start, the date keys ascend by calendar date, and so do all
\* slots taken in iteration order.
C15_Chronological ==
    /\ Ascending(day_slots[1])
    /\ \A i \in 1..Len(slots[1]) : Ascending(slots[1][i].val)
    /\ \A i \in 1..Len(slots[1]) : \A j \in 1..Len(slots[1]) :
        i < j => KeyDate(slots[1][i].key) < KeyDate(slots[1][j].key)
    /\ Ascending(AllSlots(slots[1]))
    /\ Succeeded(1) => Ascending(AllSlots(result[1].slots))

\* A mapping with two dates of several slots each has been returned.
C15_Witness ==
    /\ Succeeded(1)
    /\ Len(result[1].slots) >= 2
    /\ \A i \in 1..Len(result[1].slots) : Len(result[1].slots[i].val) >= 2

\* C16: at every point of the generation and in the returned mapping every
\* date key has at least one slot, and a date has a key only if one of its
\* candidates is free and inside the window: a date whose candidates were
\* all excluded has no key.
C16_NoEmptyDay ==
    /\ \A i \in 1..Len(slots[1]) : slots[1][i].val # <<>>
    /\ Succeeded(1) =>
        \A i \in 1..Len(result[1].slots) : result[1].slots[i].val # <<>>
    /\ \A i \in 1..Len(slots[1]) :
        \E c \in Candidates(1, KeyDate(slots[1][i].key)) :
            ~OverlapsBusy(1, c) /\ WithinWindow(1, c)

\* The generator has returned: one enabled date of the range has
\* candidates that are all inside the window and all busy, and no key.
C16_Witness ==
    /\ pc[1] = "gen_returned"
    /\ \E d \in EnabledDates(1) :
        /\ Candidates(1, d) # {}
        /\ \A c \in Candidates(1, d) : WithinWindow(1, c) /\ OverlapsBusy(1, c)
        /\ DateKey(d) \notin Keys(1)

\* The positions <<date, slot>> of a returned mapping.
Positions(d) == UNION {{<<i, j>> : j \in 1..Len(d[i].val)} : i \in 1..Len(d)}

\* C17: a result without an 'error' key has totalSlots equal to the number
\* of slots listed under all its date keys together, 0 for an empty mapping.
C17_TotalSlots ==
    (pc[1] = "done" /\ "error" \notin DOMAIN result[1]) =>
        /\ result[1].totalSlots = Cardinality(Positions(result[1].slots))
        /\ result[1].slots = <<>> => result[1].totalSlots = 0

\* A result with two dates that list different numbers of slots.
C17_Witness ==
    /\ Succeeded(1)
    /\ Len(result[1].slots) = 2
    /\ Len(result[1].slots[1].val) # Len(result[1].slots[2].val)
    /\ result[1].totalSlots > 2

\* The second call has the arguments of the first, with one field that the
\* first left out set to its documented default.
DefaultWrittenOut(p, q) ==
    /\ start_date[p] = start_date[q]
    /\ end_date[p] = end_date[q]
    /\ busy_periods[p] = busy_periods[q]
    /\ timezone[p] = timezone[q]
    /\ booking_settings[q] \in WrittenOut(booking_settings[p])

\* C18: a call that leaves out businessBookingHours, slotLengthMinutes, or
\* the startHour or endHour of an enabled day returns what the call returns
\* that sets the field to Monday-Friday 09:00-17:00, 60, 9 or 17, whatever
\* other fields the settings carry.
C18_DefaultsPerField ==
    \A p \in Procs : \A q \in Procs :
        (DefaultWrittenOut(p, q) /\ Finished(p) /\ Finished(q)) =>
            pc[p] = pc[q] /\ slots[p] = slots[q]

\* Settings with a slot length of 45 and no business hours, and the same
\* with the weekday hours written out: both calls returned slots.
C18_Witness ==
    /\ pc[1] = "gen_returned" /\ pc[2] = "gen_returned"
    /\ booking_settings[1] = [slotLengthMinutes |-> 45]
    /\ DefaultWrittenOut(1, 2)
    /\ "businessBookingHours" \in DOMAIN booking_settings[2]
    /\ slots[1] # <<>>

\* What a call returns when it runs alone, written out from its arguments:
\* for every enabled date of the range in ascending order, the grid
\* candidates that are free and inside the window, in ascending order,
\* each with the offset the day started with; dates without any are left out.
GridCount(p, d) ==
    IF CloseAt(p, d) > OpenAt(p, d)
    THEN (CloseAt(p, d) - OpenAt(p, d)) \div Length(p)
    ELSE 0
Grid(p, d) == [k \in 1..GridCount(p, d) |-> OpenAt(p, d) + (k - 1) * Length(p)]
Kept(p, d) ==
    SelectSeq(Grid(p, d), LAMBDA c : ~OverlapsBusy(p, c) /\ WithinWindow(p, c))
DayOffset(p, d) == AtHour(tz[p], d, StartHour(booking_settings[p], d)).off
SlotAt(p, d, c) ==
    [time |-> [fmt |-> "offset", wall |-> c + DayOffset(p, d), us |-> 0,
               off |-> DayOffset(p, d)],
     attendees |-> 1]
RangeDates(p) ==
    [i \in 1..(DateOf(end_local[p]) - DateOf(start_local[p]) + 1) |->
        DateOf(start_local[p]) + i - 1]
AloneResult(p) ==
    LET days == SelectSeq(RangeDates(p),
                    LAMBDA d : DayEnabled(booking_settings[p], d) /\ Len(Kept(p, d)) > 0)
    IN  [i \in 1..Len(days) |->
            [key |-> DateKey(days[i]),
             val |-> [k \in 1..Len(Kept(p, days[i])) |->
                        SlotAt(p, days[i], Kept(p, days[i])[k])]]]

\* The locals and the arguments of an invocation.
FrameOf(p) ==
    <<pc[p], tz[p], start_local[p], end_local[p], busy_times[p], slots[p],
      current_date[p], day_slots[p], slot_start[p], day_end[p], slot_end[p],
      earliest_slot[p]>>
ArgumentsOf(p) ==
    <<start_date[p], end_date[p], busy_periods[p], timezone[p], booking_settings[p]>>

\* A step changes the locals of one invocation at most, and no arguments.
C19_Step ==
    /\ \A p \in Procs : ArgumentsOf(p)' = ArgumentsOf(p)
    /\ \A p \in Procs : \A q \in Procs :
        p # q => (FrameOf(p)' = FrameOf(p) \/ FrameOf(q)' = FrameOf(q))

\* An invocation that has returned, has returned what it returns alone.
C19_AsAlone == \A p \in Procs : pc[p] = "gen_returned" => slots[p] = AloneResult(p)

\* C19: with the steps of two invocations interleaved in any order, every
\* step changes the locals of one invocation only and no argument, and each
\* invocation returns the mapping it returns when it runs alone.
C19_Isolated == [](C19_AsAlone) /\ [][C19_Step]_vars

\* Two invocations with different busy lists, time zones and slot lengths
\* were both in their slot loops and have both returned slots.
C19_Witness ==
    /\ pc[1] = "gen_returned" /\ pc[2] = "gen_returned"
    /\ busy_periods[1] # busy_periods[2]
    /\ timezone[1] # timezone[2]
    /\ booking_settings[1] # booking_settings[2]
    /\ slots[1] # <<>> /\ slots[2] # <<>>
    /\ slots[1] # slots[2]

\* The candidate just tested starts when a busy period ends or ends when
\* one starts.
TestedTouchesBusy(p) ==
    \E i \in 1..Len(busy_periods[p]) :
        \/ Tested(p) = IsoInstant(busy_periods[p][i].end)
        \/ Tested(p) + Length(p) = IsoInstant(busy_periods[p][i].start)

\* C20: two calls that differ only in bufferMinutes return the same
\* mapping, and a candidate that touches a busy period, overlaps none and
\* lies inside the window is appended whatever bufferMinutes is.
C20_BufferNotApplied ==
    /\ \A p \in Procs : \A q \in Procs :
        (/\ SameButSetting(p, q, "bufferMinutes")
         /\ Finished(p) /\ Finished(q)) =>
            pc[p] = pc[q] /\ slots[p] = slots[q]
    /\ \A p \in Procs :
        (JustTested(p) /\ TestedTouchesBusy(p) /\ TestedPasses(p)) => TestedAppended(p)

\* A call with bufferMinutes of 30 has just appended the slot that starts
\* when the busy period 11:00-12:00 ends, after a call without the setting
\* returned its slots.
C20_Witness ==
    /\ pc[1] = "gen_returned"
    /\ slots[1] # <<>>
    /\ "bufferMinutes" \notin DOMAIN booking_settings[1]
    /\ BufferMinutes(booking_settings[2]) = 30
    /\ busy_periods[2] = <<BusyMon11>>
    /\ JustTested(2)
    /\ Tested(2) = Mon(12, 0)
    /\ TestedAppended(2)

\* The calendar date a key names.
DateNamed(key) ==
    CASE key = "2024-03-30" -> 0 - 1
      [] key = "2024-03-31" -> 0
      [] key = "2024-04-01" -> 1
      [] key = "2024-04-02" -> 2
      [] key = "2024-04-03" -> 3
      [] key = "2024-04-04" -> 4
      [] OTHER -> 5

\* The date the generation timezone shows at the start of an emitted slot.
LocalDateOf(p, e) == (StartOf(e) + UtcOffsetAt(tz[p], StartOf(e))) \div MinutesPerDay

\* C21: every emitted slot is stored under the key that names the local
\* calendar date, in the generation timezone, of the slot's own start, and
\* no slot start is stored under two keys.
C21_LocalDateKey ==
    \A p \in Procs :
        /\ \A e \in Emitted(p) : DateNamed(e[1]) = LocalDateOf(p, e)
        /\ \A e \in Stored(p) : \A f \in Stored(p) :
                StartOf(e) = StartOf(f) => e[1] = f[1]

\* A call has returned slots under two keys, one of them a slot that starts
\* on another date in UTC than the date its key names.
C21_Witness ==
    \E p \in Procs :
        /\ pc[p] = "gen_returned"
        /\ Cardinality(Keys(p)) >= 2
        /\ \E e \in Stored(p) : DateNamed(e[1]) # StartOf(e) \div MinutesPerDay

\* The five external steps of a booking, and those a call has attempted.
BookingSteps ==
    <<"get_booking_context_by_call_sid", "validate_and_refresh_gcal_token",
      "create_google_calendar_event", "store_event_booking",
      "update_call_history_booking">>
IsBookingStep(c) == \E k \in 1..Len(BookingSteps) : BookingSteps[k] = c
StepsOf(p) == SelectSeq(calls[p], IsBookingStep)
IsPrefix(a, b) == Len(a) <= Len(b) /\ \A i \in 1..Len(a) : a[i] = b[i]

\* Step k of a call in progress has succeeded.
StepSucceeded(p, k) ==
    CASE k = 1 -> context[p] # None
      [] k = 2 -> token_data[p] # None
      [] k = 3 -> event_data[p] # None /\ event_data[p] \in calendar
      [] k = 4 -> booking_id[p] # None
                    /\ \E row \in event_bookings : row.id = booking_id[p]
      [] OTHER -> TRUE

\* What must hold before token validation is attempted.
MayValidate(p) ==
    /\ call_sid[p] # ""
    /\ context[p] # None
    /\ "user_settings" \in DOMAIN context[p]
    /\ context[p].user_settings # None
    /\ "user_id" \in DOMAIN context[p].user_settings
    /\ context[p].user_settings.user_id # ""
    /\ "primary_calendar_integration" \in DOMAIN context[p].user_settings
    /\ context[p].user_settings.primary_calendar_integration = "google_calendar"

\* The steps a call attempts in one step of the model are attempted with
\* every earlier step having succeeded and, from token validation on, with
\* call sid, user id and integration in place.
C22_Step ==
    \A p \in Procs :
        \A n \in (Len(StepsOf(p)) + 1)..Len(StepsOf(p)') :
            /\ \A k \in 1..(n - 1) : StepSucceeded(p, k)
            /\ call_sid[p] # ""
            /\ n >= 2 => MayValidate(p)

C22_Order == \A p \in Procs : IsPrefix(StepsOf(p), BookingSteps)

\* C22: the external steps of a booking occur in the order fetch context,
\* validate token, create event, store booking, update call history; each
\* is attempted only if every earlier one succeeded, and token validation
\* and what follows only with a call sid, a user id and 'google_calendar'
\* as the primary integration.
C22_FixedOrder == [](C22_Order) /\ [][C22_Step]_vars

\* A call has gone through all five steps, and another has stopped after
\* fetching a context that names another integration.
C22_Witness ==
    /\ pc[1] = "done" /\ pc[2] = "done"
    /\ StepsOf(1) = SubSeq(BookingSteps, 1, 1)
    /\ result[1] = <<"Error: ", "Primary calendar integration is ", "cal_com",
                     ", not google_calendar">>
    /\ StepsOf(2) = BookingSteps

\* What a call has left behind: its event, its booking row, its update of
\* call_history.
EventBy(p) == \E e \in calendar : e.id = <<"event", p>>
RowBy(p) == \E row \in event_bookings : row.id = <<"booking", p>>
HistoryBy(p) == \E h \in call_history : h.event_booking_id = <<"booking", p>>
BeginsWith(string, piece) == Len(string) >= 1 /\ Head(string) = piece
Reported(p) == pc[p] = "done"

C24_AllOrNothing ==
    \A p \in Procs : (Reported(p) /\ BeginsWith(result[p], "Error: ")) => ~EventBy(p)

\* The first call created an event and reported that the booking record
\* could not be stored; the retry an hour later is booked: two events.
C24_Witness ==
    /\ Reported(1) /\ Reported(2)
    /\ result[1] = ErrorString("Failed to store booking record")
    /\ EventBy(1) /\ ~RowBy(1)
    /\ BeginsWith(result[2], "Successfully booked appointment for ")
    /\ Cardinality(calendar) = 2

\* The requests of a call, as a set, and the last of them.
Attempted(p) == {calls[p][i] : i \in 1..Len(calls[p])}
LastCall(p) == IF calls[p] = <<>> THEN "" ELSE calls[p][Len(calls[p])]
ErrorShape(r) == DOMAIN r = {"error"}
SuccessShape(r) == DOMAIN r = {"slots", "matchFound", "matchingSlot", "timezone", "totalSlots"}
NoQueryNoSlots(p) ==
    /\ "freeBusy" \notin Attempted(p)
    /\ "_generate_available_slots" \notin Attempted(p)
    /\ slots[p] = <<>>

\* The settings of a fetched context lack the integration, the access
\* token or the user id.
LacksIntegration(ctx) ==
    \/ "integration_settings" \notin DOMAIN ctx.user_settings
    \/ "calendar" \notin DOMAIN ctx.user_settings.integration_settings
    \/ "google_calendar" \notin DOMAIN ctx.user_settings.integration_settings.calendar
    \/ ctx.user_settings.integration_settings.calendar.google_calendar = EmptyDict
LacksAccessToken(ctx) ==
    /\ ~LacksIntegration(ctx)
    /\ "access_token" \notin
            DOMAIN ctx.user_settings.integration_settings.calendar.google_calendar
LacksUserId(ctx) == "user_id" \notin DOMAIN ctx.user_settings

\* C25: _check_availability_logic never raises and returns one of two
\* shapes, a result with the key 'error' only or one with slots,
\* matchFound, matchingSlot, timezone and totalSlots and no 'error'.  A
\* missing context, integration, access token or user id, a failed token
\* validation and a FreeBusy answer other than 200 each give the error
\* shape, with no FreeBusy query and no slot generation after the failure.
C25_TwoShapes ==
    \A p \in Procs :
        /\ pc[p] = "gen_raised" => ENABLED HandleException(p)
        /\ pc[p] = "done" =>
            /\ ErrorShape(result[p]) \/ SuccessShape(result[p])
            /\ SuccessShape(result[p]) => LastCall(p) = "_generate_available_slots"
            /\ context[p] = None =>
                (ErrorShape(result[p]) /\ NoQueryNoSlots(p))
            /\ (context[p] # None /\ (LacksIntegration(context[p])
                                        \/ LacksAccessToken(context[p])
                                        \/ LacksUserId(context[p]))) =>
                /\ ErrorShape(result[p])
                /\ NoQueryNoSlots(p)
                /\ "validate_and_refresh_gcal_token" \notin Attempted(p)
            /\ LastCall(p) = "validate_and_refresh_gcal_token" =>
                (ErrorShape(result[p]) /\ NoQueryNoSlots(p))
            /\ LastCall(p) = "freeBusy" =>
                /\ ErrorShape(result[p])
                /\ "_generate_available_slots" \notin Attempted(p)
                /\ slots[p] = <<>>
                /\ Len(SelectSeq(calls[p], LAMBDA c : c = "freeBusy")) = 1

\* A call has returned the error of a FreeBusy answer other than 200,
\* after one query and without generating slots.
C25_Witness ==
    /\ pc[1] = "done"
    /\ result[1] = ErrorResult("Google Calendar API error")
    /\ calls[1] = <<"get_booking_context_by_call_sid", "validate_and_refresh_gcal_token",
                    "freeBusy">>
    /\ slots[1] = <<>>

\* The slot length a call was given: its settings' slotLengthMinutes, or
\* an hour.
GivenLength(p) ==
    IF "slotLengthMinutes" \in DOMAIN booking_settings[p]
    THEN booking_settings[p].slotLengthMinutes
    ELSE 60
InLoops(p) == pc[p] \in {"day_loop", "slot_loop"}

\* What a step of the loops of a call does to the loop variables.
C26_Advance ==
    \A p \in Procs :
        /\ GivenLength(p) >= 1
        \* the day loop: the date stays within an iteration and grows by
        \* one when the next begins, and the loop is left past end's date
        /\ (InLoops(p) /\ pc'[p] = "slot_loop") => current_date'[p] = current_date[p]
        /\ (InLoops(p) /\ pc'[p] = "day_loop" /\ current_date'[p] # current_date[p]) =>
                current_date'[p] = current_date[p] + 1
        /\ (InLoops(p) /\ pc'[p] = "day_loop") =>
                (current_date'[p] = current_date[p] + 1
                    /\ current_date[p] <= end_local[p].wall \div MinutesPerDay)
        /\ (pc[p] = "day_loop" /\ pc'[p] = "gen_returned") =>
                current_date[p] > end_local[p].wall \div MinutesPerDay
        \* the slot loop: slot_start grows by the slot length, and the
        \* loop is left when a slot of that length ends after day_end
        /\ (pc[p] = "slot_loop" /\ pc'[p] = "slot_loop") =>
                /\ slot_start'[p].wall = slot_start[p].wall + GivenLength(p)
                /\ slot_start'[p].off = slot_start[p].off
                /\ day_end'[p] = day_end[p]
                /\ Instant(slot_start[p]) + GivenLength(p) <= Instant(day_end[p])
        /\ (pc[p] = "slot_loop" /\ pc'[p] = "day_loop") =>
                Instant(slot_start[p]) + GivenLength(p) > Instant(day_end[p])

\* C26: for every finite window, busy-period list and slotLengthMinutes
\* of at least 1, _generate_available_slots terminates: the day loop
\* advances one calendar date per iteration until it has passed end's
\* date, the slot loop advances slot_start by slotLengthMinutes per
\* iteration until slot_start + slotLengthMinutes exceeds endHour:00, and
\* every call returns or raises.
C26_Terminates ==
    /\ [][C26_Advance]_vars
    /\ <>[](\A p \in Procs : Finished(p))

\* The call with slots of one minute is in its slot loop, past the first
\* half hour of its day, after the first call has returned.
C26_Witness ==
    /\ pc[1] = "gen_returned"
    /\ pc[2] = "slot_loop"
    /\ GivenLength(2) = 1
    /\ slot_start[2].wall > day_end[2].wall - 30
    /\ Len(day_slots[2]) >= 30

\* The Google Calendar settings a call of the token validation was given,
\* the instant from which they count as expired, and whether the call has
\* read the clock (line 240), which it does right before the comparison.
StoredToken(p) == context[p].user_settings.integration_settings.calendar.google_calendar
Deadline(p) == StoredToken(p).created_at.epoch + StoredToken(p).expires_in - 120
ReadClock(p) == context[p] # None /\ current_time[p] # 0
TokenReturned(p) == pc[p] = "token_returned"
RefreshRequest == "POST oauth2.googleapis.com/token"

\* C27: validate_and_refresh_gcal_token treats the stored token as valid
\* exactly when now < created_at + expires_in - 120 seconds.  Then it
\* returns the stored settings unchanged and sends no refresh request; at
\* or after that instant it never returns the stored token and goes on to
\* the refresh (which ends at once when no refresh token is stored).
C27_ValidBeforeDeadline ==
    \A p \in Procs :
        ReadClock(p) =>
            /\ current_time[p] < Deadline(p) =>
                /\ TokenReturned(p)
                /\ token_data[p] = StoredToken(p)
                /\ calls[p] = <<>>
            /\ current_time[p] >= Deadline(p) =>
                /\ token_data[p] # StoredToken(p)
                /\ \/ pc[p] \in {"token_refresh", "token_update"}
                   \/ TokenReturned(p) /\ RefreshRequest \in Attempted(p)
                   \/ TokenReturned(p) /\ token_data[p] = None
            /\ (TokenReturned(p) /\ token_data[p] = StoredToken(p)) =>
                    current_time[p] < Deadline(p)

\* The clock read exactly created_at + 3600 - 120 seconds and a refresh
\* request has been sent.
C27_Witness ==
    /\ ReadClock(1)
    /\ StoredToken(1).expires_in = 3600
    /\ current_time[1] = StoredToken(1).created_at.epoch + 3480
    /\ RefreshRequest \in Attempted(1)

Occurrences(p, c) == Len(SelectSeq(calls[p], LAMBDA x : x = c))
Expired(p) == ReadClock(p) /\ current_time[p] >= Deadline(p)

\* C28: with an expired token, validate_and_refresh_gcal_token returns
\* None without any HTTP request when no refresh_token is stored, returns
\* None without updating the stored credentials when the refresh fails,
\* and otherwise returns new token data whose refresh_token is the stored
\* one, after calling update_gcal_credentials exactly once; it never
\* raises.
C28_RefreshOutcome ==
    \A p \in Procs :
        /\ pc[p] \in {"token_check", "token_refresh", "token_update"} =>
                ENABLED ValidateAndRefresh(p)
        /\ Expired(p) =>
            /\ "refresh_token" \notin DOMAIN StoredToken(p) =>
                (TokenReturned(p) /\ token_data[p] = None /\ calls[p] = <<>>)
            /\ pc[p] \in {"token_refresh", "token_update"} =>
                    Occurrences(p, "update_gcal_credentials") = 0
            /\ (TokenReturned(p) /\ token_data[p] = None) =>
                /\ Occurrences(p, "update_gcal_credentials") = 0
                /\ Occurrences(p, "rpc update_gcal_credentials") = 0
                /\ Occurrences(p, "update user_settings") = 0
                /\ Occurrences(p, RefreshRequest) <= 1
            /\ (TokenReturned(p) /\ token_data[p] # None) =>
                /\ token_data[p].refresh_token = StoredToken(p).refresh_token
                /\ token_data[p].access_token # StoredToken(p).access_token
                /\ token_data[p].created_at.epoch >= current_time[p]
                /\ Occurrences(p, "update_gcal_credentials") = 1
                /\ calls[p][1] = RefreshRequest
                /\ calls[p][2] = "update_gcal_credentials"
                /\ Occurrences(p, RefreshRequest) = 1

\* A refresh whose response carried another refresh token has returned,
\* and the fallback update of the credentials found no row.
C28_Witness ==
    /\ Expired(1)
    /\ TokenReturned(1)
    /\ token_data[1] # None
    /\ token_data[1].access_token = "token3"
    /\ token_data[1].refresh_token = "refresh"
    /\ calls[1] = <<RefreshRequest, "update_gcal_credentials",
                    "rpc update_gcal_credentials", "update user_settings">>

\* The calls made on the database object so far, and the last of them.
Operations == calls[1]
LastOperation == IF Operations = <<>> THEN "none" ELSE Operations[Len(Operations)]

\* C30: for any sequence of connect() and disconnect() calls on a
\* SupabaseDatabase, is_connected() is true only if the client reference
\* is not None and the most recent connect() returned True with no
\* disconnect() since; after any disconnect() and after any connect()
\* that returns False, is_connected() is false.
C30_ConnectedAfterConnect ==
    /\ IsConnected(db) =>
        /\ db.client # None
        /\ \E i \in 1..Len(Operations) :
            /\ Operations[i] = "connect True"
            /\ \A j \in (i + 1)..Len(Operations) :
                Operations[j] \notin {"disconnect", "connect False", "connect True"}
    /\ LastOperation \in {"disconnect", "connect False"} => ~IsConnected(db)
    /\ LastOperation = "disconnect" => db.client = None

\* A connect() has returned False after one that returned True; the
\* object holds a client and is_connected() is false.
C30_Witness ==
    /\ Len(Operations) >= 2
    /\ Operations[Len(Operations) - 1] = "connect True"
    /\ LastOperation = "connect False"
    /\ db.client # None
    /\ ~IsConnected(db)


\* The slots of a returned result, each with the key it is stored under.
KeyedSlots(r) ==
    UNION {{<<r.slots[i].key, r.slots[i].val[j]>> : j \in 1..Len(r.slots[i].val)} :
            i \in 1..Len(r.slots)}

\* A slot time is expressed in a zone when it carries the offset the zone
\* has at that instant, and a key when it names the date the zone has then.
ExpressedIn(zone, key, slot) ==
    LET instant == slot.time.wall - slot.time.off
    IN  /\ slot.time.off = UtcOffsetAt(zone, instant)
        /\ DateNamed(key) = (instant + UtcOffsetAt(zone, instant)) \div MinutesPerDay

\* C29: in every result that is no error, the 'timezone' field names the
\* timezone in which the returned slot times and date keys are expressed,
\* whether the timezone string of the user profile is valid or not.
C29_TimezoneNamesSlotZone ==
    \A p \in Procs :
        (pc[p] = "done" /\ "slots" \in DOMAIN result[p] /\ result[p].slots # <<>>) =>
            /\ result[p].timezone \in KnownZones
            /\ \A e \in KeyedSlots(result[p]) :
                    ExpressedIn(result[p].timezone, e[1], e[2])

\* A result with slots has been returned for a profile whose timezone
\* string names no timezone.
C29_Witness ==
    /\ pc[1] = "done"
    /\ "slots" \in DOMAIN result[1]
    /\ result[1].slots # <<>>
    /\ result[1].timezone = "Mars/Phobos"
    /\ \A e \in KeyedSlots(result[1]) : ExpressedIn("UTC", e[1], e[2])


====
